---- MODULE Spec2Model ----
(***************************************************************************)
(* Smart-Plant-Monitor: the actuator-control service (ControlLogic,        *)
(* SafetyManager and the MQTT handlers of services/actuator-control) and   *)
(* the model sets of the machine-learning engines.                         *)
(*                                                                         *)
(* Python values are modelled as follows.  An optional value is a tuple:   *)
(* None is <<>> and a present value x is <<x>>.  A dict is a function      *)
(* whose DOMAIN is its key set.  time.time() and datetime.now() read the   *)
(* same wall clock, the variable now, in whole seconds.                    *)
(***************************************************************************)
EXTENDS Integers, Sequences, FiniteSets, TLC

VARIABLES
    now,                  \* the wall clock: time.time() / datetime.now()
    actuator_timers,      \* ControlLogic.actuator_timers
    command_history,      \* SafetyManager.command_history (a defaultdict(list))
    current_sensor_data,  \* main.current_sensor_data
    actuator_status,      \* main.actuator_status
    AUTO_CONTROL,         \* main.AUTO_CONTROL, read once from the environment
    handled,              \* number of inbound MQTT messages handled so far
    last,                 \* the last operation: its name, arguments, result,
                          \* the calls it made and the lines it logged
    tp_models,            \* TrendPredictor.models
    tp_poly_features,     \* TrendPredictor.poly_features
    tp_is_trained,        \* TrendPredictor.is_trained
    ac_models,            \* ActuatorController.models
    ac_is_trained,        \* ActuatorController.is_trained
    trainer,              \* the caller running train(): its position in it
    reader,               \* the caller running an inference method: its
                          \* position and what it has read so far
    tp_history_buffers,   \* TrendPredictor.history_buffers
    tp_max_buffer_size,   \* TrendPredictor.max_buffer_size
    appended,             \* every pair update_history has appended so far,
                          \* per metric (history variable)
    ac_feature_names,     \* ActuatorController.feature_names
    ac_target_names,      \* ActuatorController.target_names
    files,                \* the model files on disk: path -> joblib snapshot
    saved,                \* the engine as it was when it last wrote each
                          \* path (history variable)
    sds_sensor_data,      \* sensor-data-service main.sensor_data
    sds_data_history,     \* sensor-data-service DataProcessor.data_history
    sds_expected_values,  \* sensor-data-service DataProcessor.expected_values
    anomalies_topic,      \* latest anomalies on plant-iot/analytics/anomalies
    inbox,                \* plant-iot/sensors/aggregated messages not yet
                          \* delivered, per subscribing service
    published,            \* number of messages the simulator has published
    expiry,               \* the caller running check_duration_expired():
                          \* its position and what it has read so far
    main_pc               \* the position of main() in its start-up, loop
                          \* and shutdown

svcvars == <<now, actuator_timers, command_history, current_sensor_data,
             actuator_status, AUTO_CONTROL, handled, last>>

histvars == <<tp_history_buffers, tp_max_buffer_size, appended>>

storevars == <<ac_feature_names, ac_target_names, files, saved>>

busvars == <<sds_sensor_data, sds_data_history, sds_expected_values,
             anomalies_topic, inbox, published>>

threadvars == <<expiry, main_pc>>

extvars == <<histvars, storevars, busvars, threadvars>>

mlvars == <<tp_models, tp_poly_features, tp_is_trained, ac_models,
            ac_is_trained, trainer, reader, extvars>>

vars == <<svcvars, mlvars>>

----------------------------------------------------------------------------
(* Bounds of the model *)

MaxTime == 4

\* At most MaxTrainings training runs are started.
MaxTrainings == 2

\* update_history is called at most MaxUpdates times.
MaxUpdates == 12

\* The small max_buffer_size a caller may set on a new TrendPredictor.
SmallBufferSize == 3

\* Before a snapshot is written, update_history is called at most
\* MaxStoredPoints times.
MaxStoredPoints == 1

\* Devices publish at most MaxPublished readings.
MaxPublished == 2

\* The sensor-data service republishes only while fewer than MaxInbox
\* messages wait for the actuator-control service.
MaxInbox == 2

\* A client sends at most MaxBurst commands: a burst that fills a window,
\* one command too many, and one command a minute later.
MaxBurst == 12

\* The service handles at most MaxMessages inbound messages.
MaxMessages == 3

\* At most one rate-limit window at a time holds more than MaxIdleWindow
\* commands.
MaxIdleWindow == 1

----------------------------------------------------------------------------
(* Python values *)

None == <<>>
Some(x) == <<x>>

\* Python truthiness of an optional number: None and 0 are falsy.
Truthy(o) == o # None /\ o[1] # 0

\* dict.get(key, default) on a dict of plain values
DictGet(d, k, default) == IF k \in DOMAIN d THEN d[k] ELSE default

Actuators == {"pump", "fan", "grow_light"}

\* dict iteration follows insertion order: pump, fan, grow_light
ActuatorOrder == <<"pump", "fan", "grow_light">>

\* One logged line: the message and the actuator it names.
LogLine(msg, actuator) == [msg |-> msg, actuator |-> actuator]

----------------------------------------------------------------------------
(* ControlLogic (services/actuator-control/control_logic.py)               *)

OffTimer == [start_time |-> None, duration |-> 0]

ControlLogicInit ==
    [a \in Actuators |-> OffTimer]

activate_pump(timers, duration, t) ==
    [timers EXCEPT !["pump"] = [start_time |-> Some(t), duration |-> duration]]

\* A variant of deactivate_pump that leaves the pump running.
deactivate_pump_keeps_running(timers) == timers

deactivate_pump(timers) ==
    [timers EXCEPT !["pump"] = [start_time |-> None, duration |-> 0]]

\* A variant of activate_fan that keeps a running timer's start time.
activate_fan_keeps_start(timers, duration, t) ==
    [timers EXCEPT !["fan"] =
        [start_time |-> IF timers["fan"].start_time # None
                        THEN timers["fan"].start_time ELSE Some(t),
         duration |-> duration]]

activate_fan(timers, duration, t) ==
    [timers EXCEPT !["fan"] = [start_time |-> Some(t), duration |-> duration]]

deactivate_fan(timers) ==
    [timers EXCEPT !["fan"] = [start_time |-> None, duration |-> 0]]

activate_light(timers, duration, t) ==
    [timers EXCEPT !["grow_light"] = [start_time |-> Some(t), duration |-> duration]]

deactivate_light(timers) ==
    [timers EXCEPT !["grow_light"] = [start_time |-> None, duration |-> 0]]

\* A variant of deactivate_all that forgets the fan.
deactivate_all_skips_fan(timers) ==
    deactivate_light(deactivate_pump(timers))

deactivate_all(timers) ==
    deactivate_light(deactivate_fan(deactivate_pump(timers)))

\* A variant of the expiry test that fires at the deadline itself (>=).
Expired_at_deadline(timer, current_time) ==
    /\ Truthy(timer.start_time)
    /\ timer.duration > 0
    /\ current_time - timer.start_time[1] >= timer.duration

\* The test of one loop iteration of check_duration_expired.
Expired(timer, current_time) ==
    /\ Truthy(timer.start_time)
    /\ timer.duration > 0
    /\ current_time - timer.start_time[1] > timer.duration

\* One loop iteration of check_duration_expired for actuator a: the timers
\* and the log after it.
ExpireOne(st, a, current_time) ==
    IF Expired(st.timers[a], current_time)
    THEN [timers |-> CASE a = "pump" -> deactivate_pump(st.timers)
                       [] a = "fan" -> deactivate_fan(st.timers)
                       [] a = "grow_light" -> deactivate_light(st.timers)
                       [] OTHER -> st.timers,
          log |-> Append(st.log, LogLine("duration expired", a))]
    ELSE st

RECURSIVE ExpireFrom(_, _, _)
ExpireFrom(st, i, current_time) ==
    IF i > Len(ActuatorOrder) THEN st
    ELSE ExpireFrom(ExpireOne(st, ActuatorOrder[i], current_time), i + 1, current_time)

\* check_duration_expired: current_time is read once, before the loop.
check_duration_expired(timers, t) ==
    ExpireFrom([timers |-> timers, log |-> <<>>], 1, t)

\* A variant of get_status that reports 0 remaining for an indefinite timer.
get_status_zero_remaining(timers, actuator, t) ==
    LET timer == IF actuator \in DOMAIN timers THEN Some(timers[actuator]) ELSE None
    IN  IF timer # None /\ Truthy(timer[1].start_time)
        THEN LET elapsed == t - timer[1].start_time[1]
             IN  [status |-> "ON",
                  elapsed |-> elapsed,
                  remaining |-> IF timer[1].duration > 0
                                THEN timer[1].duration - elapsed
                                ELSE 0]
        ELSE [status |-> "OFF"]

get_status(timers, actuator, t) ==
    LET timer == IF actuator \in DOMAIN timers THEN Some(timers[actuator]) ELSE None
    IN  IF timer # None /\ Truthy(timer[1].start_time)
        THEN LET elapsed == t - timer[1].start_time[1]
             IN  [status |-> "ON",
                  elapsed |-> elapsed,
                  remaining |-> IF timer[1].duration > 0
                                THEN timer[1].duration - elapsed
                                ELSE -1]
        ELSE [status |-> "OFF"]

----------------------------------------------------------------------------
(* SafetyManager (services/actuator-control/safety.py)                     *)

MAX_DURATIONS == [pump |-> 1800, fan |-> 3600, grow_light |-> 14400]

MAX_COMMANDS_PER_MINUTE == 10

\* timedelta(minutes=1), in seconds
RateWindowSeconds == 60

\* Reading command_history[actuator]: a defaultdict creates the missing key.
HistoryTouch(history, actuator) ==
    [k \in DOMAIN history \cup {actuator} |->
        IF k \in DOMAIN history THEN history[k] ELSE <<>>]

\* command_history[actuator] = value
HistorySet(history, actuator, value) ==
    [k \in DOMAIN history \cup {actuator} |->
        IF k = actuator THEN value ELSE history[k]]

\* A variant of the window test that never lets a command leave the window.
InWindow_never_expires(cmd_time, t) == cmd_time > t - t

\* The window test of _check_rate_limit: cmd_time > minute_ago.
InWindow(cmd_time, t) == cmd_time > t - RateWindowSeconds

\* A variant of _check_rate_limit that is off by one: it rejects only when
\* the window holds more than the maximum.
check_rate_limit_off_by_one(history, actuator, t) ==
    LET read == HistoryTouch(history, actuator)
        kept == SelectSeq(read[actuator], LAMBDA cmd_time : InWindow(cmd_time, t))
        pruned == HistorySet(read, actuator, kept)
    IN  IF Len(pruned[actuator]) > MAX_COMMANDS_PER_MINUTE
        THEN [history |-> pruned, ret |-> FALSE,
              log |-> <<LogLine("Rate limit exceeded", actuator)>>]
        ELSE [history |-> pruned, ret |-> TRUE, log |-> <<>>]

\* _check_rate_limit: prunes the actuator's window, then tests its length.
check_rate_limit(history, actuator, t) ==
    LET read == HistoryTouch(history, actuator)
        kept == SelectSeq(read[actuator], LAMBDA cmd_time : InWindow(cmd_time, t))
        pruned == HistorySet(read, actuator, kept)
    IN  IF Len(pruned[actuator]) >= MAX_COMMANDS_PER_MINUTE
        THEN [history |-> pruned, ret |-> FALSE,
              log |-> <<LogLine("Rate limit exceeded", actuator)>>]
        ELSE [history |-> pruned, ret |-> TRUE, log |-> <<>>]

\* A variant of _record_command that keeps one window for all actuators:
\* the timestamp goes into every window there is.
record_command_shared(history, actuator, t) ==
    LET read == HistoryTouch(history, actuator)
    IN  [k \in DOMAIN read |-> Append(read[k], t)]

\* _record_command
record_command(history, actuator, t) ==
    LET read == HistoryTouch(history, actuator)
    IN  HistorySet(read, actuator, Append(read[actuator], t))

\* A variant of validate_command that rejects a duration above the cap.
validate_command_rejects_over_cap(history, actuator, action, duration, t) ==
    IF actuator \notin {"pump", "fan", "grow_light"}
    THEN [history |-> history, ret |-> FALSE,
          log |-> <<LogLine("Unknown actuator", actuator)>>]
    ELSE IF action \notin {"ON", "OFF"}
    THEN [history |-> history, ret |-> FALSE,
          log |-> <<LogLine("Invalid action", actuator)>>]
    ELSE IF duration < 0
    THEN [history |-> history, ret |-> FALSE,
          log |-> <<LogLine("Negative duration", actuator)>>]
    ELSE IF duration > DictGet(MAX_DURATIONS, actuator, 3600)
    THEN [history |-> history, ret |-> FALSE,
          log |-> <<LogLine("Duration exceeds max", actuator)>>]
    ELSE LET rate == check_rate_limit(history, actuator, t)
         IN  IF ~rate.ret
             THEN [history |-> rate.history, ret |-> FALSE,
                   log |-> rate.log \o <<LogLine("Rate limit exceeded", actuator)>>]
             ELSE [history |-> record_command(rate.history, actuator, t),
                   ret |-> TRUE, log |-> <<>>]

\* A variant of validate_command that consults the rate limit before it
\* tests the action and the duration.
validate_command_rate_first(history, actuator, action, duration, t) ==
    IF actuator \notin {"pump", "fan", "grow_light"}
    THEN [history |-> history, ret |-> FALSE,
          log |-> <<LogLine("Unknown actuator", actuator)>>]
    ELSE LET rate == check_rate_limit(history, actuator, t)
         IN  IF ~rate.ret
             THEN [history |-> rate.history, ret |-> FALSE,
                   log |-> rate.log \o <<LogLine("Rate limit exceeded", actuator)>>]
             ELSE IF action \notin {"ON", "OFF"}
             THEN [history |-> rate.history, ret |-> FALSE,
                   log |-> <<LogLine("Invalid action", actuator)>>]
             ELSE IF duration < 0
             THEN [history |-> rate.history, ret |-> FALSE,
                   log |-> <<LogLine("Negative duration", actuator)>>]
             ELSE [history |-> record_command(rate.history, actuator, t),
                   ret |-> TRUE, log |-> <<>>]

validate_command(history, actuator, action, duration, t) ==
    IF actuator \notin {"pump", "fan", "grow_light"}
    THEN [history |-> history, ret |-> FALSE,
          log |-> <<LogLine("Unknown actuator", actuator)>>]
    ELSE IF action \notin {"ON", "OFF"}
    THEN [history |-> history, ret |-> FALSE,
          log |-> <<LogLine("Invalid action", actuator)>>]
    ELSE IF duration < 0
    THEN [history |-> history, ret |-> FALSE,
          log |-> <<LogLine("Negative duration", actuator)>>]
    ELSE LET warn == IF duration > DictGet(MAX_DURATIONS, actuator, 3600)
                     THEN <<LogLine("Duration exceeds max", actuator)>>
                     ELSE <<>>
             rate == check_rate_limit(history, actuator, t)
         IN  IF ~rate.ret
             THEN [history |-> rate.history, ret |-> FALSE,
                   log |-> warn \o rate.log
                           \o <<LogLine("Rate limit exceeded", actuator)>>]
             ELSE [history |-> record_command(rate.history, actuator, t),
                   ret |-> TRUE, log |-> warn]

\* check_interlocks: comparing a None temperature raises TypeError, which
\* the method catches and answers False.
check_interlocks(actuator, sensor_data) ==
    IF actuator = "grow_light"
    THEN LET temperature == DictGet(sensor_data, "temperature", Some(0))
         IN  IF temperature = None THEN FALSE
             ELSE ~(temperature[1] > 40)
    ELSE TRUE

----------------------------------------------------------------------------
(* The record of the last operation *)

NoRet == [none |-> TRUE]

\* before is ControlLogic's timer map as a ControlLogic method found it; the
\* handlers of the service and SafetyManager's methods do not record it.
Unrecorded == <<>>

LastOf(op, actuator, action, duration, ret, calls, log, before) ==
    [op |-> op, actuator |-> actuator, action |-> action, duration |-> duration,
     ret |-> ret, calls |-> calls, log |-> log, before |-> before]

\* The record of a ControlLogic method or of a clock step.
Last(op, actuator, action, duration, ret, calls, log) ==
    LastOf(op, actuator, action, duration, ret, calls, log, actuator_timers)

----------------------------------------------------------------------------
(* The state after construction of the service's module-level objects      *)

ActuatorStatusInit ==
    [a \in Actuators |-> [status |-> "OFF", last_command |-> None, duration |-> 0]]

EmptyDict == [k \in {} |-> None]

\* The metrics list of TrendPredictor.train, in its order.
Metrics == <<"temperature", "humidity", "soil_moisture", "light_intensity">>

\* config.TARGET_ACTUATORS, in its order.
TARGET_ACTUATORS == <<"fan", "pump", "light">>

\* config.FEATURE_NAMES, in its order.
FEATURE_NAMES == <<"temperature", "humidity", "soil_moisture", "light_intensity">>

\* The elements of a list.
Elems(seq) == {seq[i] : i \in 1..Len(seq)}

\* self.history_buffers of a new TrendPredictor: one empty list per metric.
HistoryBuffersInit == [metric \in Elems(Metrics) |-> <<>>]

\* self.max_buffer_size of a new TrendPredictor.
DefaultMaxBufferSize == 1440

\* sensor-data-service main.sensor_data at start-up.
SensorDataInit ==
    [k \in {"temperature", "humidity", "soil_moisture", "light_intensity",
            "timestamp"} |-> None]

\* DataProcessor.expected_values of a new processor.
ExpectedValuesInit ==
    [temperature |-> 25, humidity |-> 60, soil_moisture |-> 50,
     light_intensity |-> 50]

\* The services subscribed to plant-iot/sensors/aggregated.
Subscribers == {"actuator-control", "sensor-data-service"}

\* No call of check_duration_expired is in progress.
ExpiryIdle == [pc |-> "idle", i |-> 0, current_time |-> 0]

\* The engines' history, name lists and files, the message bus and the
\* threads at start-up: no model file on disk, nothing published, the
\* service running and no expiry check in progress.
InitExt ==
    /\ tp_history_buffers = HistoryBuffersInit
    /\ tp_max_buffer_size = DefaultMaxBufferSize
    /\ appended = HistoryBuffersInit
    /\ ac_feature_names = FEATURE_NAMES
    /\ ac_target_names = TARGET_ACTUATORS
    /\ files = EmptyDict
    /\ saved = EmptyDict
    /\ sds_sensor_data = SensorDataInit
    /\ sds_data_history = <<>>
    /\ sds_expected_values = ExpectedValuesInit
    /\ anomalies_topic = None
    /\ inbox = [svc \in Subscribers |-> <<>>]
    /\ published = 0
    /\ expiry = ExpiryIdle
    /\ main_pc = "running"

\* The model sets, feature transform and trained flags of the two engines.
ModelSets ==
    [tp_models |-> tp_models, tp_poly_features |-> tp_poly_features,
     tp_is_trained |-> tp_is_trained, ac_models |-> ac_models,
     ac_is_trained |-> ac_is_trained]

\* TrendPredictor.__init__ and ActuatorController.__init__ with no model
\* file on disk; no call is in progress.
InitEngines ==
    /\ InitExt
    /\ tp_models = EmptyDict
    /\ tp_poly_features = None
    /\ tp_is_trained = FALSE
    /\ ac_models = EmptyDict
    /\ ac_is_trained = FALSE
    /\ trainer = [pc |-> "idle", engine |-> "", gen |-> 0, i |-> 0, columns |-> {},
                  start |-> ModelSets]
    /\ reader = [pc |-> "idle", call |-> "", path |-> "", i |-> 0, model |-> 0,
                 seen |-> <<>>, error |-> ""]

InitObjects ==
    /\ InitEngines
    /\ now = 1      \* time.time() is positive: a start_time is never falsy
    /\ actuator_timers = ControlLogicInit
    /\ command_history = EmptyDict
    /\ current_sensor_data = EmptyDict
    /\ actuator_status = ActuatorStatusInit
    /\ handled = 0
    /\ last = [op |-> "init", actuator |-> "", action |-> "", duration |-> 0,
               ret |-> NoRet, calls |-> <<>>, log |-> <<>>,
               before |-> ControlLogicInit]

\* The clock advances by dt seconds between operations.
Advance(dt, limit) ==
    /\ now + dt <= limit
    /\ now' = now + dt
    /\ last' = Last("tick", "", "", 0, NoRet, <<>>, <<>>)
    /\ UNCHANGED <<actuator_timers, command_history, current_sensor_data,
                   actuator_status, AUTO_CONTROL, handled>>
    /\ UNCHANGED mlvars

Tick == Advance(1, MaxTime)

----------------------------------------------------------------------------
(* The MQTT handlers (services/actuator-control/main.py)                   *)

\* One call made by a handler: the function, the actuator and action it is
\* about, and what it returned.
Call(fn, actuator, action, ret) ==
    [fn |-> fn, actuator |-> actuator, action |-> action, ret |-> ret]

\* str.upper() on the action strings that arrive
Upper(str) ==
    CASE str = "on" -> "ON"
      [] str = "off" -> "OFF"
      [] str = "On" -> "ON"
      [] str = "toggle" -> "TOGGLE"
      [] OTHER -> str

\* int(time.time() * 1000)
Millis(t) == t * 1000

\* What a handler leaves behind: the three objects it may write, the calls
\* it made and the lines it logged.
Outcome(timers, history, status, calls, log) ==
    [timers |-> timers, history |-> history, status |-> status,
     calls |-> calls, log |-> log]

handle_pump_command(payload, timers, history, status, t) ==
    LET action == Upper(DictGet(payload, "action", ""))
        duration == DictGet(payload, "duration", 0)
        v == validate_command(history, "pump", action, duration, t)
        validated == <<Call("validate_command", "pump", action, v.ret)>>
    IN  IF ~v.ret
        THEN Outcome(timers, v.history, status, validated,
                     v.log \o <<LogLine("Invalid pump command", "pump")>>)
        ELSE IF action = "ON"
        THEN Outcome(activate_pump(timers, duration, t), v.history,
                     [status EXCEPT !["pump"] =
                         [status |-> "ON", last_command |-> Some(Millis(t)),
                          duration |-> duration]],
                     validated \o <<Call("activate_pump", "pump", "ON", TRUE),
                                    Call("publish_status", "pump", "", TRUE)>>,
                     v.log \o <<LogLine("Pump turned ON", "pump")>>)
        ELSE IF action = "OFF"
        THEN Outcome(deactivate_pump(timers), v.history,
                     [status EXCEPT !["pump"] =
                         [status |-> "OFF", last_command |-> Some(Millis(t)),
                          duration |-> 0]],
                     validated \o <<Call("deactivate_pump", "pump", "OFF", TRUE),
                                    Call("publish_status", "pump", "", TRUE)>>,
                     v.log \o <<LogLine("Pump turned OFF", "pump")>>)
        ELSE Outcome(timers, v.history, status,
                     validated \o <<Call("publish_status", "pump", "", TRUE)>>,
                     v.log)

handle_fan_command(payload, timers, history, status, t) ==
    LET action == Upper(DictGet(payload, "action", ""))
        duration == DictGet(payload, "duration", 0)
        v == validate_command(history, "fan", action, duration, t)
        validated == <<Call("validate_command", "fan", action, v.ret)>>
    IN  IF ~v.ret
        THEN Outcome(timers, v.history, status, validated,
                     v.log \o <<LogLine("Invalid fan command", "fan")>>)
        ELSE IF action = "ON"
        THEN Outcome(activate_fan(timers, duration, t), v.history,
                     [status EXCEPT !["fan"] =
                         [status |-> "ON", last_command |-> Some(Millis(t)),
                          duration |-> duration]],
                     validated \o <<Call("activate_fan", "fan", "ON", TRUE),
                                    Call("publish_status", "fan", "", TRUE)>>,
                     v.log \o <<LogLine("Fan turned ON", "fan")>>)
        ELSE IF action = "OFF"
        THEN Outcome(deactivate_fan(timers), v.history,
                     [status EXCEPT !["fan"] =
                         [status |-> "OFF", last_command |-> Some(Millis(t)),
                          duration |-> 0]],
                     validated \o <<Call("deactivate_fan", "fan", "OFF", TRUE),
                                    Call("publish_status", "fan", "", TRUE)>>,
                     v.log \o <<LogLine("Fan turned OFF", "fan")>>)
        ELSE Outcome(timers, v.history, status,
                     validated \o <<Call("publish_status", "fan", "", TRUE)>>,
                     v.log)

\* The interlock of handle_light_command reads the temperature with
\* .get('temperature', 0): a key held with the value None makes the
\* comparison raise TypeError, which the handler's except clause logs.
handle_light_command(payload, timers, history, status, sensor_data, t) ==
    LET action == Upper(DictGet(payload, "action", ""))
        duration == DictGet(payload, "duration", 0)
        v == validate_command(history, "grow_light", action, duration, t)
        validated == <<Call("validate_command", "grow_light", action, v.ret)>>
        temperature == DictGet(sensor_data, "temperature", Some(0))
    IN  IF ~v.ret
        THEN Outcome(timers, v.history, status, validated,
                     v.log \o <<LogLine("Invalid light command", "grow_light")>>)
        ELSE IF action = "ON"
        THEN IF temperature = None
             THEN Outcome(timers, v.history, status, validated,
                          v.log \o <<LogLine("Error handling light command",
                                             "grow_light")>>)
             ELSE IF temperature[1] > 40
             THEN Outcome(timers, v.history, status, validated,
                          v.log \o <<LogLine("Cannot activate grow light: Temperature too high",
                                             "grow_light")>>)
             ELSE Outcome(activate_light(timers, duration, t), v.history,
                     [status EXCEPT !["grow_light"] =
                         [status |-> "ON", last_command |-> Some(Millis(t)),
                          duration |-> duration]],
                     validated \o <<Call("activate_light", "grow_light", "ON", TRUE),
                                    Call("publish_status", "grow_light", "", TRUE)>>,
                     v.log \o <<LogLine("Grow light turned ON", "grow_light")>>)
        ELSE IF action = "OFF"
        THEN Outcome(deactivate_light(timers), v.history,
                     [status EXCEPT !["grow_light"] =
                         [status |-> "OFF", last_command |-> Some(Millis(t)),
                          duration |-> 0]],
                     validated \o <<Call("deactivate_light", "grow_light", "OFF", TRUE),
                                    Call("publish_status", "grow_light", "", TRUE)>>,
                     v.log \o <<LogLine("Grow light turned OFF", "grow_light")>>)
        ELSE Outcome(timers, v.history, status,
                     validated \o <<Call("publish_status", "grow_light", "", TRUE)>>,
                     v.log)

\* handle_global_control: the status records keep their duration and
\* last_command; only 'status' is assigned.
handle_global_control(payload, timers, history, status) ==
    IF DictGet(payload, "enable", FALSE)
    THEN Outcome(deactivate_all(timers), history,
                 [a \in Actuators |-> [status[a] EXCEPT !.status = "OFF"]],
                 <<Call("deactivate_all", "", "OFF", TRUE),
                   Call("publish_all_status", "", "", TRUE)>>,
                 <<LogLine("Emergency stop - turning off all actuators", "")>>)
    ELSE Outcome(timers, history, status,
                 <<Call("publish_all_status", "", "", TRUE)>>,
                 <<LogLine("All actuators disabled", "")>>)

\* The pump section of perform_auto_control.
AutoPump(o, moisture, t) ==
    IF moisture = None THEN o
    ELSE IF moisture[1] < 30 /\ o.status["pump"].status = "OFF"
    THEN Outcome(activate_pump(o.timers, 300, t), o.history,
                 [o.status EXCEPT !["pump"] =
                     [status |-> "ON", last_command |-> Some(Millis(t)),
                      duration |-> 300]],
                 o.calls \o <<Call("activate_pump", "pump", "ON", TRUE),
                              Call("publish_status", "pump", "", TRUE)>>,
                 o.log \o <<LogLine("Auto: Soil dry, activating pump", "pump")>>)
    ELSE IF moisture[1] > 70 /\ o.status["pump"].status = "ON"
    THEN Outcome(deactivate_pump(o.timers), o.history,
                 [o.status EXCEPT !["pump"].status = "OFF"],
                 o.calls \o <<Call("deactivate_pump", "pump", "OFF", TRUE),
                              Call("publish_status", "pump", "", TRUE)>>,
                 o.log \o <<LogLine("Auto: Soil moist enough, deactivating pump", "pump")>>)
    ELSE o

\* The fan section of perform_auto_control.
AutoFan(o, temp, t) ==
    IF temp = None THEN o
    ELSE IF temp[1] > 30 /\ o.status["fan"].status = "OFF"
    THEN Outcome(activate_fan(o.timers, 0, t), o.history,
                 [o.status EXCEPT !["fan"].status = "ON"],
                 o.calls \o <<Call("activate_fan", "fan", "ON", TRUE),
                              Call("publish_status", "fan", "", TRUE)>>,
                 o.log \o <<LogLine("Auto: High temperature, activating fan", "fan")>>)
    ELSE IF temp[1] < 25 /\ o.status["fan"].status = "ON"
    THEN Outcome(deactivate_fan(o.timers), o.history,
                 [o.status EXCEPT !["fan"].status = "OFF"],
                 o.calls \o <<Call("deactivate_fan", "fan", "OFF", TRUE),
                              Call("publish_status", "fan", "", TRUE)>>,
                 o.log \o <<LogLine("Auto: Temperature normal, deactivating fan", "fan")>>)
    ELSE o

\* The grow-light section of perform_auto_control.
AutoLight(o, light, t) ==
    IF light = None THEN o
    ELSE IF light[1] < 20 /\ o.status["grow_light"].status = "OFF"
    THEN Outcome(activate_light(o.timers, 0, t), o.history,
                 [o.status EXCEPT !["grow_light"].status = "ON"],
                 o.calls \o <<Call("activate_light", "grow_light", "ON", TRUE),
                              Call("publish_status", "grow_light", "", TRUE)>>,
                 o.log \o <<LogLine("Auto: Low light, activating grow light", "grow_light")>>)
    ELSE IF light[1] > 60 /\ o.status["grow_light"].status = "ON"
    THEN Outcome(deactivate_light(o.timers), o.history,
                 [o.status EXCEPT !["grow_light"].status = "OFF"],
                 o.calls \o <<Call("deactivate_light", "grow_light", "OFF", TRUE),
                              Call("publish_status", "grow_light", "", TRUE)>>,
                 o.log \o <<LogLine("Auto: Sufficient light, deactivating grow light",
                                    "grow_light")>>)
    ELSE o

perform_auto_control(sensor_data, timers, history, status, t) ==
    LET temp == DictGet(sensor_data, "temperature", None)
        moisture == DictGet(sensor_data, "soil_moisture", None)
        light == DictGet(sensor_data, "light_intensity", None)
        start == Outcome(timers, history, status, <<>>, <<>>)
    IN  AutoLight(AutoFan(AutoPump(start, moisture, t), temp, t), light, t)

\* payload.get(key): None when the key is absent
PayloadGet(payload, key) ==
    IF key \in DOMAIN payload THEN Some(payload[key]) ELSE None

\* payload.get(key, payload.get(fallback))
PayloadGetEither(payload, key, fallback) ==
    IF key \in DOMAIN payload THEN Some(payload[key]) ELSE PayloadGet(payload, fallback)

\* The sensor branch of on_message: current_sensor_data.update({...})
SensorUpdate(sensor_data, payload) ==
    LET fresh == [temperature |-> PayloadGet(payload, "temperature"),
                  humidity |-> PayloadGet(payload, "humidity"),
                  soil_moisture |-> PayloadGetEither(payload, "soil_moisture_percent",
                                                     "soil_moisture"),
                  light_intensity |-> PayloadGetEither(payload, "light_percent",
                                                       "light_intensity")]
    IN  [k \in DOMAIN sensor_data \cup DOMAIN fresh |->
            IF k \in DOMAIN fresh THEN fresh[k] ELSE sensor_data[k]]

----------------------------------------------------------------------------
(* ControlLogic driven through its public methods                          *)

ApiDurations == {0, 1, 2}
StatusNames == Actuators \cup {"valve"}

ControlFrame ==
    /\ UNCHANGED <<now, command_history, current_sensor_data, actuator_status,
                   AUTO_CONTROL, handled>>
    /\ UNCHANGED mlvars

CallActivatePump(d) ==
    /\ actuator_timers' = activate_pump(actuator_timers, d, now)
    /\ last' = Last("activate_pump", "pump", "", d, NoRet, <<>>,
                    <<LogLine("Pump activated", "pump")>>)
    /\ ControlFrame

CallDeactivatePump ==
    /\ actuator_timers' = deactivate_pump(actuator_timers)
    /\ last' = Last("deactivate_pump", "pump", "", 0, NoRet, <<>>,
                    <<LogLine("Pump deactivated", "pump")>>)
    /\ ControlFrame

CallActivateFan(d) ==
    /\ actuator_timers' = activate_fan(actuator_timers, d, now)
    /\ last' = Last("activate_fan", "fan", "", d, NoRet, <<>>,
                    <<LogLine("Fan activated", "fan")>>)
    /\ ControlFrame

CallDeactivateFan ==
    /\ actuator_timers' = deactivate_fan(actuator_timers)
    /\ last' = Last("deactivate_fan", "fan", "", 0, NoRet, <<>>,
                    <<LogLine("Fan deactivated", "fan")>>)
    /\ ControlFrame

CallActivateLight(d) ==
    /\ actuator_timers' = activate_light(actuator_timers, d, now)
    /\ last' = Last("activate_light", "grow_light", "", d, NoRet, <<>>,
                    <<LogLine("Grow light activated", "grow_light")>>)
    /\ ControlFrame

CallDeactivateLight ==
    /\ actuator_timers' = deactivate_light(actuator_timers)
    /\ last' = Last("deactivate_light", "grow_light", "", 0, NoRet, <<>>,
                    <<LogLine("Grow light deactivated", "grow_light")>>)
    /\ ControlFrame

CallDeactivateAll ==
    /\ actuator_timers' = deactivate_all(actuator_timers)
    /\ last' = Last("deactivate_all", "", "", 0, NoRet, <<>>,
                    <<LogLine("Pump deactivated", "pump"),
                      LogLine("Fan deactivated", "fan"),
                      LogLine("Grow light deactivated", "grow_light"),
                      LogLine("All actuators deactivated (emergency stop)", "")>>)
    /\ ControlFrame

CallCheckDurationExpired ==
    LET r == check_duration_expired(actuator_timers, now)
    IN  /\ actuator_timers' = r.timers
        /\ last' = Last("check_duration_expired", "", "", 0, NoRet, <<>>, r.log)
        /\ ControlFrame

CallGetStatus(a) ==
    /\ last' = Last("get_status", a, "", 0, get_status(actuator_timers, a, now),
                    <<>>, <<>>)
    /\ UNCHANGED actuator_timers
    /\ ControlFrame

InitControl ==
    /\ InitObjects
    /\ AUTO_CONTROL = TRUE

NextControl ==
    \/ Tick
    \/ \E d \in ApiDurations : CallActivatePump(d)
    \/ CallDeactivatePump
    \/ \E d \in ApiDurations : CallActivateFan(d)
    \/ CallDeactivateFan
    \/ \E d \in ApiDurations : CallActivateLight(d)
    \/ CallDeactivateLight
    \/ CallDeactivateAll
    \/ CallCheckDurationExpired
    \/ \E a \in StatusNames : CallGetStatus(a)

SpecControl == InitControl /\ [][NextControl]_vars

----------------------------------------------------------------------------
(* check_duration_expired() in one thread, activations in another.         *)
(* ControlLogic holds no lock: between the expiry check's test of a timer  *)
(* and its deactivate call another thread may run.  The loop variable      *)
(* timer is the dict object found at the start of the iteration; a later   *)
(* activation installs a new object and leaves that one as it was.         *)

ExpiryFrame ==
    /\ UNCHANGED <<now, command_history, current_sensor_data, actuator_status,
                   AUTO_CONTROL, handled>>
    /\ UNCHANGED <<tp_models, tp_poly_features, tp_is_trained, ac_models,
                   ac_is_trained, trainer, reader, histvars, storevars, busvars,
                   main_pc>>

\* The position after iteration i of the loop over the three timers.
ExpiryAfter(i) ==
    IF i < Len(ActuatorOrder)
    THEN [expiry EXCEPT !.pc = "loop", !.i = i + 1]
    ELSE ExpiryIdle

\* current_time = time.time()
ExpiryBegin ==
    /\ expiry.pc = "idle"
    /\ expiry' = [pc |-> "loop", i |-> 1, current_time |-> now]
    /\ UNCHANGED <<actuator_timers, last>>
    /\ ExpiryFrame

\* One iteration up to the test elapsed > timer['duration'].
ExpiryTest ==
    /\ expiry.pc = "loop"
    /\ expiry' = IF Expired(actuator_timers[ActuatorOrder[expiry.i]],
                            expiry.current_time)
                 THEN [expiry EXCEPT !.pc = "deactivate"]
                 ELSE ExpiryAfter(expiry.i)
    /\ UNCHANGED <<actuator_timers, last>>
    /\ ExpiryFrame

\* self.deactivate_pump() / deactivate_fan() / deactivate_light() of the
\* iteration whose test succeeded.
ExpiryDeactivate ==
    /\ expiry.pc = "deactivate"
    /\ LET a == ActuatorOrder[expiry.i]
       IN  /\ actuator_timers' = CASE a = "pump" -> deactivate_pump(actuator_timers)
                                   [] a = "fan" -> deactivate_fan(actuator_timers)
                                   [] a = "grow_light" -> deactivate_light(actuator_timers)
           /\ last' = Last("check_duration_expired", a, "", 0, NoRet, <<>>,
                           <<LogLine("duration expired", a)>>)
    /\ expiry' = ExpiryAfter(expiry.i)
    /\ ExpiryFrame

NextExpiry ==
    \/ Tick
    \/ \E d \in ApiDurations : CallActivatePump(d)
    \/ \E d \in ApiDurations : CallActivateFan(d)
    \/ \E d \in ApiDurations : CallActivateLight(d)
    \/ ExpiryBegin
    \/ ExpiryTest
    \/ ExpiryDeactivate

SpecExpiry == InitControl /\ [][NextExpiry]_vars

----------------------------------------------------------------------------
(* SafetyManager driven through validate_command                           *)

\* The commands a client sends: every well-formed ON and OFF command, and
\* commands with an unknown actuator, an unknown action, a negative
\* duration, and several of these at once.
Command(actuator, action, duration) ==
    [actuator |-> actuator, action |-> action, duration |-> duration]

Commands ==
    {Command(a, act, 0) : a \in Actuators, act \in {"ON", "OFF"}}
    \cup {Command("valve", "ON", 0), Command("valve", "TOGGLE", -1),
          Command("pump", "TOGGLE", 0), Command("fan", "TOGGLE", -1),
          Command("grow_light", "ON", -1)}

\* The clock of this specification moves in half windows, up to one window
\* past the start.
HalfWindow == Advance(30, 1 + RateWindowSeconds)

\* Clients load one actuator at a time: at most one window holds more than
\* MaxIdleWindow commands.
OneBusyWindow(history) ==
    Cardinality({a \in DOMAIN history : Len(history[a]) > MaxIdleWindow}) <= 1

CallValidateCommand(c) ==
    LET r == validate_command(command_history, c.actuator, c.action, c.duration, now)
    IN  /\ OneBusyWindow(r.history)
        /\ command_history' = r.history
        /\ last' = LastOf("validate_command", c.actuator, c.action, c.duration,
                          [ok |-> r.ret], <<>>, r.log, Unrecorded)
        /\ UNCHANGED <<now, actuator_timers, current_sensor_data,
                       actuator_status, AUTO_CONTROL, handled>>
        /\ UNCHANGED mlvars

InitSafety ==
    /\ InitObjects
    /\ AUTO_CONTROL = TRUE

NextSafety ==
    \/ HalfWindow
    \/ \E c \in Commands : CallValidateCommand(c)

SpecSafety == InitSafety /\ [][NextSafety]_vars

----------------------------------------------------------------------------
(* The service: on_message dispatches each inbound message to a handler    *)

\* The JSON payloads sent to an actuator topic.
CommandPayloads(actuator) ==
    {[action |-> "ON", duration |-> 5],
     [action |-> "on"],
     [action |-> "OFF"],
     [action |-> "ON", duration |-> MAX_DURATIONS[actuator] + 1],
     [action |-> "toggle", duration |-> -1]}

\* The JSON payloads sent to plant-iot/control/all.
GlobalPayloads == {[enable |-> TRUE], [enable |-> FALSE]}

\* The JSON payloads sent to plant-iot/sensors/aggregated: hot, dry and
\* dark; cool, wet and bright (under the *_percent keys); warm and dark;
\* a reading without temperature and soil moisture; a reading in the dead
\* band of every rule.
SensorPayloads ==
    {[temperature |-> 45, humidity |-> 50, soil_moisture |-> 20, light_intensity |-> 10],
     [temperature |-> 20, humidity |-> 50, soil_moisture_percent |-> 80, light_percent |-> 70],
     [temperature |-> 35, soil_moisture |-> 50, light_intensity |-> 10],
     [humidity |-> 50, light_intensity |-> 40],
     [temperature |-> 28, soil_moisture |-> 50, light_intensity |-> 40]}

\* A handler has run, as one of at most limit messages: its outcome
\* becomes the state.
HandledUpTo(limit, op, actuator, payload, o) ==
    /\ handled < limit
    /\ handled' = handled + 1
    /\ actuator_timers' = o.timers
    /\ command_history' = o.history
    /\ actuator_status' = o.status
    /\ last' = LastOf(op, actuator, Upper(DictGet(payload, "action", "")),
                      DictGet(payload, "duration", 0), NoRet, o.calls, o.log,
                      Unrecorded)
    /\ UNCHANGED <<now, AUTO_CONTROL>>
    /\ UNCHANGED mlvars

Handled(op, actuator, payload, o) ==
    HandledUpTo(MaxMessages, op, actuator, payload, o)

OnPumpCommand(payload) ==
    /\ Handled("handle_pump_command", "pump", payload,
               handle_pump_command(payload, actuator_timers, command_history,
                                   actuator_status, now))
    /\ UNCHANGED current_sensor_data

OnFanCommand(payload) ==
    /\ Handled("handle_fan_command", "fan", payload,
               handle_fan_command(payload, actuator_timers, command_history,
                                  actuator_status, now))
    /\ UNCHANGED current_sensor_data

OnLightCommand(payload) ==
    /\ Handled("handle_light_command", "grow_light", payload,
               handle_light_command(payload, actuator_timers, command_history,
                                    actuator_status, current_sensor_data, now))
    /\ UNCHANGED current_sensor_data

OnGlobalControl(payload) ==
    /\ Handled("handle_global_control", "", payload,
               handle_global_control(payload, actuator_timers, command_history,
                                     actuator_status))
    /\ UNCHANGED current_sensor_data

\* The sensor branch of on_message: the reading is stored, then
\* perform_auto_control runs if AUTO_CONTROL is set.
OnSensorData(payload) ==
    LET stored == SensorUpdate(current_sensor_data, payload)
    IN  /\ current_sensor_data' = stored
        /\ Handled("on_sensor_data", "", payload,
                   IF AUTO_CONTROL
                   THEN perform_auto_control(stored, actuator_timers, command_history,
                                             actuator_status, now)
                   ELSE Outcome(actuator_timers, command_history, actuator_status,
                                <<>>, <<>>))

Init ==
    /\ InitObjects
    /\ AUTO_CONTROL \in BOOLEAN

\* The clock of the service moves by a whole rate-limit window.
WholeWindow == Advance(RateWindowSeconds, 1 + RateWindowSeconds)

Next ==
    \/ WholeWindow
    \/ \E payload \in CommandPayloads("pump") : OnPumpCommand(payload)
    \/ \E payload \in CommandPayloads("fan") : OnFanCommand(payload)
    \/ \E payload \in CommandPayloads("grow_light") : OnLightCommand(payload)
    \/ \E payload \in GlobalPayloads : OnGlobalControl(payload)
    \/ \E payload \in SensorPayloads : OnSensorData(payload)

Spec == Init /\ [][Next]_vars

\* A burst of ON and OFF commands on the topic of one actuator.
BurstPayloads == {[action |-> "ON", duration |-> 5], [action |-> "OFF"]}

\* The topic of a burst's commands is the only one used so far.
OnlyTopic(actuator) == DOMAIN command_history \subseteq {actuator}

BurstPumpCommand(payload) ==
    /\ OnlyTopic("pump")
    /\ HandledUpTo(MaxBurst, "handle_pump_command", "pump", payload,
                   handle_pump_command(payload, actuator_timers, command_history,
                                       actuator_status, now))
    /\ UNCHANGED current_sensor_data

BurstFanCommand(payload) ==
    /\ OnlyTopic("fan")
    /\ HandledUpTo(MaxBurst, "handle_fan_command", "fan", payload,
                   handle_fan_command(payload, actuator_timers, command_history,
                                      actuator_status, now))
    /\ UNCHANGED current_sensor_data

BurstLightCommand(payload) ==
    /\ OnlyTopic("grow_light")
    /\ HandledUpTo(MaxBurst, "handle_light_command", "grow_light", payload,
                   handle_light_command(payload, actuator_timers, command_history,
                                        actuator_status, current_sensor_data, now))
    /\ UNCHANGED current_sensor_data

NextBurst ==
    \/ WholeWindow
    \/ \E payload \in BurstPayloads : BurstPumpCommand(payload)
    \/ \E payload \in BurstPayloads : BurstFanCommand(payload)
    \/ \E payload \in BurstPayloads : BurstLightCommand(payload)

SpecBurst == Init /\ [][NextBurst]_vars

\* What a step of main()'s shutdown leaves alone.
ShutdownFrame ==
    /\ UNCHANGED <<now, command_history, current_sensor_data, actuator_status,
                   AUTO_CONTROL, handled>>
    /\ UNCHANGED <<tp_models, tp_poly_features, tp_is_trained, ac_models,
                   ac_is_trained, trainer, reader, histvars, storevars, busvars,
                   expiry>>

\* A step of main() after KeyboardInterrupt.
ShutdownStep(from, to, timers) ==
    /\ main_pc = from
    /\ main_pc' = to
    /\ actuator_timers' = timers
    /\ last' = Last("main", "", "", 0, NoRet, <<>>, <<LogLine(to, "")>>)
    /\ ShutdownFrame

\* KeyboardInterrupt ends the sleeping loop of main().
KeyboardInterrupt ==
    ShutdownStep("running", "deactivate_pump", actuator_timers)

\* control_logic.deactivate_all(), one deactivate call at a time.
ShutdownDeactivatePump ==
    ShutdownStep("deactivate_pump", "deactivate_fan",
                 deactivate_pump(actuator_timers))

ShutdownDeactivateFan ==
    ShutdownStep("deactivate_fan", "deactivate_light",
                 deactivate_fan(actuator_timers))

ShutdownDeactivateLight ==
    ShutdownStep("deactivate_light", "loop_stop",
                 deactivate_light(actuator_timers))

\* client.loop_stop() ends the callback thread, client.disconnect() closes
\* the connection, and main() returns.
ShutdownLoopStop ==
    ShutdownStep("loop_stop", "returned", actuator_timers)

\* The callback thread started by client.loop_start() handles messages
\* until loop_stop() has ended it.
CallbackThread ==
    /\ main_pc # "returned"
    /\ \/ \E payload \in CommandPayloads("pump") : OnPumpCommand(payload)
       \/ \E payload \in CommandPayloads("fan") : OnFanCommand(payload)
       \/ \E payload \in CommandPayloads("grow_light") : OnLightCommand(payload)
       \/ \E payload \in GlobalPayloads : OnGlobalControl(payload)
       \/ \E payload \in SensorPayloads : OnSensorData(payload)

NextShutdown ==
    \/ CallbackThread
    \/ KeyboardInterrupt
    \/ ShutdownDeactivatePump
    \/ ShutdownDeactivateFan
    \/ ShutdownDeactivateLight
    \/ ShutdownLoopStop

SpecShutdown == Init /\ [][NextShutdown]_vars

\* main() connects, starts the callback thread and sleeps one second at a
\* time for as long as the service runs; its loop calls nothing.  Time
\* passes while it sleeps.
SpecRunning == Init /\ [][Next]_vars /\ WF_vars(WholeWindow)

----------------------------------------------------------------------------
(* The machine-learning engines (machine-learning/trend_predictor.py,      *)
(* machine-learning/actuator_model.py).  A fitted model is identified by   *)
(* the number of the training run that fitted it.  The engines hold no     *)
(* lock: a caller running train() and a caller running an inference method *)
(* interleave between statements.                                          *)

\* d[k] = v on a dict
DictSet(d, k, v) ==
    [x \in DOMAIN d \cup {k} |-> IF x = k THEN v ELSE d[x]]

\* The column sets of the training tables passed to TrendPredictor.train:
\* every metric, or (retrain_online with an empty light_intensity buffer)
\* every metric but one.
TrainingColumns ==
    LET all == {Metrics[i] : i \in 1..Len(Metrics)}
    IN  {all, all \ {"light_intensity"}}

\* The readings passed to the inference methods carry every feature.
ReadingKeys == Metrics

TrainerIdle ==
    [pc |-> "idle", engine |-> "", gen |-> trainer.gen, i |-> 0, columns |-> {},
     start |-> trainer.start]

MLFrame == UNCHANGED <<svcvars, extvars>>

\* TrendPredictor.train, up to the loop: a new, unfitted PolynomialFeatures
\* object is assigned to self.poly_features.
TrendTrainBegin(columns) ==
    /\ trainer.pc = "idle"
    /\ trainer.gen < MaxTrainings
    /\ tp_poly_features' = Some([gen |-> trainer.gen + 1, fitted |-> FALSE])
    /\ trainer' = [pc |-> "fit", engine |-> "trend", gen |-> trainer.gen + 1,
                   i |-> 1, columns |-> columns, start |-> ModelSets]
    /\ UNCHANGED <<tp_models, tp_is_trained, ac_models, ac_is_trained, reader>>
    /\ MLFrame

\* One loop iteration up to fit_transform, which fits the shared
\* PolynomialFeatures object in place; a metric without a column is skipped.
TrendTrainFit ==
    /\ trainer.pc = "fit"
    /\ trainer.engine = "trend"
    /\ IF Metrics[trainer.i] \in trainer.columns
       THEN /\ tp_poly_features' = Some([tp_poly_features[1] EXCEPT !.fitted = TRUE])
            /\ trainer' = [trainer EXCEPT !.pc = "store"]
       ELSE /\ tp_poly_features' = tp_poly_features
            /\ trainer' = [trainer EXCEPT
                              !.i = @ + 1,
                              !.pc = IF trainer.i + 1 > Len(Metrics)
                                     THEN "finish" ELSE "fit"]
    /\ UNCHANGED <<tp_models, tp_is_trained, ac_models, ac_is_trained, reader>>
    /\ MLFrame

\* The rest of the iteration: the Ridge model is fitted and stored with
\* self.models[metric] = model.
TrendTrainStore ==
    /\ trainer.pc = "store"
    /\ trainer.engine = "trend"
    /\ tp_models' = DictSet(tp_models, Metrics[trainer.i], trainer.gen)
    /\ trainer' = [trainer EXCEPT
                      !.i = @ + 1,
                      !.pc = IF trainer.i + 1 > Len(Metrics) THEN "finish" ELSE "fit"]
    /\ UNCHANGED <<tp_poly_features, tp_is_trained, ac_models, ac_is_trained, reader>>
    /\ MLFrame

\* self.is_trained = True; return scores
TrendTrainFinish ==
    /\ trainer.pc = "finish"
    /\ trainer.engine = "trend"
    /\ tp_is_trained' = TRUE
    /\ trainer' = TrainerIdle
    /\ UNCHANGED <<tp_models, tp_poly_features, ac_models, ac_is_trained, reader>>
    /\ MLFrame

\* ActuatorController.train, up to the loop (train_test_split is local).
ActuatorTrainBegin ==
    /\ trainer.pc = "idle"
    /\ trainer.gen < MaxTrainings
    /\ trainer' = [pc |-> "store", engine |-> "actuator", gen |-> trainer.gen + 1,
                   i |-> 1, columns |-> {}, start |-> ModelSets]
    /\ UNCHANGED <<tp_models, tp_poly_features, tp_is_trained, ac_models,
                   ac_is_trained, reader>>
    /\ MLFrame

\* One loop iteration: a RandomForestClassifier is fitted and stored with
\* self.models[actuator] = model.
ActuatorTrainStore ==
    /\ trainer.pc = "store"
    /\ trainer.engine = "actuator"
    /\ ac_models' = DictSet(ac_models, TARGET_ACTUATORS[trainer.i], trainer.gen)
    /\ trainer' = [trainer EXCEPT
                      !.i = @ + 1,
                      !.pc = IF trainer.i + 1 > Len(TARGET_ACTUATORS)
                             THEN "finish" ELSE "store"]
    /\ UNCHANGED <<tp_models, tp_poly_features, tp_is_trained, ac_is_trained, reader>>
    /\ MLFrame

\* self.is_trained = True; _log_feature_importance(); return accuracies
ActuatorTrainFinish ==
    /\ trainer.pc = "finish"
    /\ trainer.engine = "actuator"
    /\ ac_is_trained' = TRUE
    /\ trainer' = TrainerIdle
    /\ UNCHANGED <<tp_models, tp_poly_features, tp_is_trained, ac_models, reader>>
    /\ MLFrame

\* TrendPredictor.train raises inside the loop: fit_transform or model.fit
\* rejects the metric's column (a NaN in the table raises ValueError).
\* Nothing catches it in train or retrain_online.
TrendTrainRaise ==
    /\ trainer.engine = "trend"
    /\ \/ trainer.pc = "fit" /\ Metrics[trainer.i] \in trainer.columns
       \/ trainer.pc = "store"
    /\ trainer' = [trainer EXCEPT !.pc = "raised"]
    /\ UNCHANGED <<tp_models, tp_poly_features, tp_is_trained, ac_models,
                   ac_is_trained, reader>>
    /\ MLFrame

\* ActuatorController.train raises inside the loop: model.fit rejects the
\* actuator's target column.
ActuatorTrainRaise ==
    /\ trainer.engine = "actuator"
    /\ trainer.pc = "store"
    /\ trainer' = [trainer EXCEPT !.pc = "raised"]
    /\ UNCHANGED <<tp_models, tp_poly_features, tp_is_trained, ac_models,
                   ac_is_trained, reader>>
    /\ MLFrame

\* The exception reaches the caller of train.
TrainFailed ==
    /\ trainer.pc = "raised"
    /\ trainer' = TrainerIdle
    /\ UNCHANGED <<tp_models, tp_poly_features, tp_is_trained, ac_models,
                   ac_is_trained, reader>>
    /\ MLFrame

ReaderFrame ==
    /\ UNCHANGED <<tp_models, tp_poly_features, tp_is_trained, ac_models,
                   ac_is_trained, trainer>>
    /\ MLFrame

ReaderStart(call, path, pc) ==
    [pc |-> pc, call |-> call, path |-> path, i |-> 1, model |-> 0,
     seen |-> <<>>, error |-> ""]

\* predict_future: the is_trained test; an untrained engine answers with
\* _predict_simple_trends, which reads no model.
PredictFutureBegin ==
    /\ reader.pc = "idle"
    /\ reader' = IF ~tp_is_trained
                 THEN ReaderStart("predict_future", "fallback", "done")
                 ELSE ReaderStart("predict_future", "trained", "model")
    /\ ReaderFrame

\* One loop iteration up to model = self.models[metric]; a metric without a
\* model is skipped.
PredictFutureModel ==
    /\ reader.pc = "model"
    /\ LET metric == ReadingKeys[reader.i]
       IN  IF metric \notin DOMAIN tp_models
           THEN reader' = [reader EXCEPT
                              !.i = @ + 1,
                              !.pc = IF reader.i + 1 > Len(ReadingKeys)
                                     THEN "done" ELSE "model"]
           ELSE reader' = [reader EXCEPT !.model = tp_models[metric],
                                         !.pc = "transform"]
    /\ ReaderFrame

\* The rest of the iteration: self.poly_features.transform(X_future), which
\* raises NotFittedError on an unfitted object, then model.predict.
PredictFutureTransform ==
    /\ reader.pc = "transform"
    /\ IF tp_poly_features = None \/ ~tp_poly_features[1].fitted
       THEN reader' = [reader EXCEPT !.pc = "done", !.error = "NotFittedError"]
       ELSE reader' = [reader EXCEPT
                          !.seen = Append(@, [key |-> ReadingKeys[reader.i],
                                              model |-> reader.model,
                                              poly |-> tp_poly_features[1].gen]),
                          !.i = @ + 1,
                          !.pc = IF reader.i + 1 > Len(ReadingKeys)
                                 THEN "done" ELSE "model"]
    /\ ReaderFrame

\* The keys of self.models, in insertion order.
ActuatorModelKeys ==
    SelectSeq(TARGET_ACTUATORS, LAMBDA a : a \in DOMAIN ac_models)

\* predict / predict_with_confidence: the is_trained test and the feature
\* test (the reading carries every feature).
PredictBegin(call) ==
    /\ reader.pc = "idle"
    /\ reader' = IF ~ac_is_trained
                 THEN [ReaderStart(call, "untrained", "done") EXCEPT
                          !.error = "Models must be trained before prediction"]
                 ELSE ReaderStart(call, "trained",
                                  IF Len(ActuatorModelKeys) = 0 THEN "done" ELSE "items")
    /\ ReaderFrame

\* One iteration of for actuator, model in self.models.items().
PredictModel ==
    /\ reader.pc = "items"
    /\ LET actuator == ActuatorModelKeys[reader.i]
       IN  reader' = [reader EXCEPT
                         !.seen = Append(@, [key |-> actuator,
                                             model |-> ac_models[actuator],
                                             poly |-> ac_models[actuator]]),
                         !.i = @ + 1,
                         !.pc = IF reader.i + 1 > Len(ActuatorModelKeys)
                                THEN "done" ELSE "items"]
    /\ ReaderFrame

\* The inference call returns (or raises) to its caller.
InferenceReturn ==
    /\ reader.pc = "done"
    /\ reader' = [reader EXCEPT !.pc = "idle"]
    /\ ReaderFrame

InitML ==
    /\ InitObjects
    /\ AUTO_CONTROL = TRUE

NextML ==
    \/ \E columns \in TrainingColumns : TrendTrainBegin(columns)
    \/ TrendTrainFit
    \/ TrendTrainStore
    \/ TrendTrainFinish
    \/ ActuatorTrainBegin
    \/ ActuatorTrainStore
    \/ ActuatorTrainFinish
    \/ TrendTrainRaise
    \/ ActuatorTrainRaise
    \/ TrainFailed
    \/ PredictFutureBegin
    \/ PredictFutureModel
    \/ PredictFutureTransform
    \/ \E call \in {"predict", "predict_with_confidence"} : PredictBegin(call)
    \/ PredictModel
    \/ InferenceReturn

SpecML == InitML /\ [][NextML]_vars

----------------------------------------------------------------------------
(* TrendPredictor: the history buffers and online retraining, called one   *)
(* after the other by a single caller.                                     *)

\* One evicted entry: "pop from the newest end" instead of list.pop(0).
AppendBounded_evicts_newest(buffer, pair, max) ==
    LET longer == Append(buffer, pair)
    IN  IF Len(longer) > max THEN SubSeq(longer, 1, Len(longer) - 1) ELSE longer

\* buffer.append((timestamp, value)); if len(buffer) > max: buffer.pop(0)
AppendBounded(buffer, pair, max) ==
    LET longer == Append(buffer, pair)
    IN  IF Len(longer) > max THEN Tail(longer) ELSE longer

\* update_history(timestamp, data): the buffers afterwards.
update_history(buffers, max, timestamp, data) ==
    [metric \in DOMAIN buffers |->
        IF metric \in DOMAIN data
        THEN AppendBounded(buffers[metric], <<timestamp, data[metric]>>, max)
        ELSE buffers[metric]]

\* retrain_online needs a buffer with more than this many points.
MinRetrainPoints == 10

\* train(historical_data) run to completion as training run number gen:
\* a new transform, fitted if some metric has a column, and a new model
\* for every metric that has one.
train(models, columns, gen) ==
    LET fitted == Elems(Metrics) \cap columns
    IN  [models |-> [metric \in DOMAIN models \cup fitted |->
                        IF metric \in fitted THEN gen ELSE models[metric]],
         poly_features |-> Some([gen |-> gen, fitted |-> fitted # {}]),
         is_trained |-> TRUE]

\* The metrics whose buffer is not empty: the columns of the table that
\* retrain_online builds.
BufferColumns(buffers) == {metric \in DOMAIN buffers : Len(buffers[metric]) > 0}

\* pd.DataFrame(data_dict) raises ValueError unless all its columns, the
\* timestamps of the first non-empty buffer and the values of every
\* non-empty buffer, have one length.
TableLengthsDiffer(buffers) ==
    \E m1, m2 \in BufferColumns(buffers) : Len(buffers[m1]) # Len(buffers[m2])

\* retrain_online(): the engine afterwards, whether it retrained, the
\* exception it raised and the lines it logged.
retrain_online(buffers, models, poly_features, is_trained, gen) ==
    IF ~ \E metric \in DOMAIN buffers : Len(buffers[metric]) > MinRetrainPoints
    THEN [models |-> models, poly_features |-> poly_features,
          is_trained |-> is_trained, retrained |-> FALSE, raised |-> "",
          log |-> <<"Not enough data for retraining">>]
    ELSE IF TableLengthsDiffer(buffers)
    THEN [models |-> models, poly_features |-> poly_features,
          is_trained |-> is_trained, retrained |-> FALSE, raised |-> "ValueError",
          log |-> <<"Retraining models with online data...">>]
    ELSE LET t == train(models, BufferColumns(buffers), gen)
         IN  [models |-> t.models, poly_features |-> t.poly_features,
              is_trained |-> t.is_trained, retrained |-> TRUE, raised |-> "",
              log |-> <<"Retraining models with online data...",
                        "Online retraining complete">>]

\* The readings passed to update_history: every metric and a key the
\* predictor does not know, or two metrics only.
HistoryReadings ==
    {[temperature |-> 26, humidity |-> 62, soil_moisture |-> 55,
      light_intensity |-> 75, pressure |-> 1000],
     [temperature |-> 27, humidity |-> 61]}

\* What a history operation leaves alone.
HistoryFrame ==
    UNCHANGED <<actuator_timers, command_history, current_sensor_data,
                actuator_status, AUTO_CONTROL, handled, ac_models,
                ac_is_trained, reader, storevars, busvars, threadvars>>

\* The trend engine before an operation.
TrendBefore ==
    [buffers |-> tp_history_buffers, models |-> tp_models,
     poly_features |-> tp_poly_features, is_trained |-> tp_is_trained]

\* predictor.max_buffer_size = n on a new predictor.
SetMaxBufferSize(n) ==
    /\ tp_max_buffer_size = DefaultMaxBufferSize
    /\ \A metric \in DOMAIN tp_history_buffers : tp_history_buffers[metric] = <<>>
    /\ tp_max_buffer_size' = n
    /\ last' = [op |-> "max_buffer_size", n |-> n]
    /\ UNCHANGED <<now, tp_history_buffers, appended, tp_models, tp_poly_features,
                   tp_is_trained, trainer>>
    /\ HistoryFrame

\* predictor.update_history(now, data)
CallUpdateHistory(data) ==
    /\ now <= MaxUpdates
    /\ tp_history_buffers' =
           update_history(tp_history_buffers, tp_max_buffer_size, now, data)
    /\ appended' = [metric \in DOMAIN appended |->
                       IF metric \in DOMAIN data
                       THEN Append(appended[metric], <<now, data[metric]>>)
                       ELSE appended[metric]]
    /\ now' = now + 1
    /\ last' = [op |-> "update_history", timestamp |-> now, data |-> data,
                before |-> TrendBefore]
    /\ UNCHANGED <<tp_max_buffer_size, tp_models, tp_poly_features,
                   tp_is_trained, trainer>>
    /\ HistoryFrame

\* predictor.retrain_online()
CallRetrainOnline ==
    /\ trainer.pc = "idle"
    /\ trainer.gen < MaxTrainings
    /\ LET r == retrain_online(tp_history_buffers, tp_models, tp_poly_features,
                               tp_is_trained, trainer.gen + 1)
       IN  /\ tp_models' = r.models
           /\ tp_poly_features' = r.poly_features
           /\ tp_is_trained' = r.is_trained
           /\ trainer' = IF r.retrained
                         THEN [trainer EXCEPT !.gen = @ + 1]
                         ELSE trainer
           /\ last' = [op |-> "retrain_online", retrained |-> r.retrained,
                       raised |-> r.raised, log |-> r.log,
                       before |-> TrendBefore]
    /\ UNCHANGED <<now, tp_history_buffers, tp_max_buffer_size, appended>>
    /\ HistoryFrame

InitHistory ==
    /\ InitObjects
    /\ AUTO_CONTROL = TRUE

NextHistory ==
    \/ SetMaxBufferSize(SmallBufferSize)
    \/ \E data \in HistoryReadings : CallUpdateHistory(data)
    \/ CallRetrainOnline

SpecHistory == InitHistory /\ [][NextHistory]_vars

----------------------------------------------------------------------------
(* Forecasts, anomalies and actuator decisions.  Numbers: a sensor value   *)
(* is a whole number; a forecast value is kept in quarters (101 stands     *)
(* for 25.25), the unit of the fallback's half-hourly drift.  A confidence *)
(* is a record: kind "ratio" stands for num/den and kind "exp" for         *)
(* exp(-num/den).                                                          *)

\* config.FORECAST_INTERVAL_MINUTES
FORECAST_INTERVAL_MINUTES == 30

\* Forecast values are kept in units of 1/ValueScale.
ValueScale == 4

\* The training table of training run number gen: every series is
\* constant, a mild day for odd runs and a hot, dry one for even runs.
TrainingTable(gen) ==
    IF gen % 2 = 1
    THEN [temperature |-> 25, humidity |-> 60, soil_moisture |-> 50,
          light_intensity |-> 70]
    ELSE [temperature |-> 45, humidity |-> 30, soil_moisture |-> 20,
          light_intensity |-> 90]

\* model.predict of the Ridge model that run gen fitted for metric: on a
\* constant series the fitted coefficients are 0 and the intercept is the
\* series' mean, whatever the timestamp.
RidgePredict(gen, metric, minutes_ahead) ==
    ValueScale * TrainingTable(gen)[metric]

\* future_time.strftime('%H:%M'), as minutes since midnight.
WallTime(minutes_ahead) == ((now \div 60) + minutes_ahead) % 1440

\* One point more than (hours_ahead * 60) // FORECAST_INTERVAL_MINUTES
NumPredictions_one_more(hours_ahead) ==
    (hours_ahead * 60) \div FORECAST_INTERVAL_MINUTES + 1

\* num_predictions = (hours_ahead * 60) // FORECAST_INTERVAL_MINUTES
NumPredictions(hours_ahead) == (hours_ahead * 60) \div FORECAST_INTERVAL_MINUTES

\* np.clip(x, lo, hi)
Clip(x, lo, hi) == IF x < lo THEN lo ELSE IF x > hi THEN hi ELSE x

\* np.exp(future_timestamps / (hours_ahead * 60)): the minus sign lost
TrainedConfidence_sign_lost(minutes_ahead, hours_ahead) ==
    [kind |-> "exp", num |-> -minutes_ahead, den |-> hours_ahead * 60]

\* np.exp(-future_timestamps / (hours_ahead * 60))
TrainedConfidence(minutes_ahead, hours_ahead) ==
    [kind |-> "exp", num |-> minutes_ahead, den |-> hours_ahead * 60]

\* max(0.3, 1.0 - hours_fraction / hours_ahead), over 600 * hours_ahead
FallbackConfidence(minutes_ahead, hours_ahead) ==
    LET rest == 600 * hours_ahead - 10 * minutes_ahead
        least == 180 * hours_ahead
    IN  [kind |-> "ratio",
         num |-> IF rest > least THEN rest ELSE least,
         den |-> 600 * hours_ahead]

\* The trends dict of _predict_simple_trends, per half hour and in quarters
\* (0.5, -1.0, -2.0 and 0.0 per hour).
Trends ==
    [temperature |-> 1, humidity |-> -2, soil_moisture |-> -4,
     light_intensity |-> 0]

\* _predict_simple_trends(current_data, hours_ahead); noise is what
\* np.random.normal returned, in quarters.
predict_simple_trends(current_data, hours_ahead, noise) ==
    [metric \in DOMAIN current_data \cap DOMAIN Trends |->
        [i \in 1..NumPredictions(hours_ahead) |->
            LET minutes_ahead == i * FORECAST_INTERVAL_MINUTES
                raw == ValueScale * current_data[metric] + Trends[metric] * i + noise
                clamped == IF metric = "temperature"
                           THEN Clip(raw, 10 * ValueScale, 40 * ValueScale)
                           ELSE Clip(raw, 0, 100 * ValueScale)
            IN  [time |-> WallTime(minutes_ahead),
                 minutes_ahead |-> minutes_ahead,
                 value |-> clamped,
                 confidence |-> FallbackConfidence(minutes_ahead, hours_ahead)]]]

\* predict_future(current_data, hours_ahead) with one metric's model read
\* as a whole: the forecasts, or the exception raised.
predict_future(models, poly_features, is_trained, current_data, hours_ahead, noise) ==
    IF ~is_trained
    THEN [raised |-> "",
          predictions |-> predict_simple_trends(current_data, hours_ahead, noise)]
    ELSE LET common == DOMAIN current_data \cap DOMAIN models
         IN  IF common # {} /\ (poly_features = None \/ ~poly_features[1].fitted)
             THEN [raised |-> "NotFittedError", predictions |-> EmptyDict]
             ELSE [raised |-> "",
                   predictions |->
                     [metric \in common |->
                        [i \in 1..NumPredictions(hours_ahead) |->
                            LET minutes_ahead == i * FORECAST_INTERVAL_MINUTES
                            IN  [time |-> WallTime(minutes_ahead),
                                 minutes_ahead |-> minutes_ahead,
                                 value |-> RidgePredict(models[metric], metric,
                                                        minutes_ahead),
                                 confidence |-> TrainedConfidence(minutes_ahead,
                                                                  hours_ahead)]]]]

\* The order in which the readings of this model list their keys.
ReadingOrder ==
    <<"temperature", "humidity", "soil_moisture", "light_intensity", "pressure">>

Abs(x) == IF x < 0 THEN -x ELSE x

Max(x, y) == IF x > y THEN x ELSE y

\* |value - predicted_value|, in quarters.
Deviation(value, predicted_value) == Abs(ValueScale * value - predicted_value)

\* 100 times the adaptive threshold of detect_anomalies, in quarters:
\* max(8.0, |value| * 0.15), max(35.0, |value| * 0.40), max(30.0, |value| * 0.40).
Threshold100(metric, value) ==
    IF metric = "temperature"
    THEN Max(800 * ValueScale, 15 * ValueScale * Abs(value))
    ELSE IF metric = "light_intensity"
    THEN Max(3500 * ValueScale, 40 * ValueScale * Abs(value))
    ELSE Max(3000 * ValueScale, 40 * ValueScale * Abs(value))

\* "if deviation > threshold" with threshold2 = 2 * threshold instead
Anomalous_at_twice_threshold(metric, value, predicted_value) ==
    100 * Deviation(value, predicted_value) > 2 * Threshold100(metric, value)

\* if deviation > threshold
Anomalous(metric, value, predicted_value) ==
    100 * Deviation(value, predicted_value) > Threshold100(metric, value)

\* detect_anomalies(current_data, predictions): the list of anomalies.
detect_anomalies(current_data, predictions) ==
    LET compared == SelectSeq(ReadingOrder, LAMBDA metric :
                        /\ metric \in DOMAIN current_data
                        /\ metric \in DOMAIN predictions
                        /\ Len(predictions[metric]) # 0
                        /\ Anomalous(metric, current_data[metric],
                                     predictions[metric][1].value))
    IN  [n \in 1..Len(compared) |->
            LET metric == compared[n]
                value == current_data[metric]
                predicted_value == predictions[metric][1].value
            IN  [metric |-> metric,
                 current_value |-> value,
                 predicted_value |-> predicted_value,
                 deviation |-> Deviation(value, predicted_value),
                 severity |-> IF 100 * Deviation(value, predicted_value)
                                     > 2 * Threshold100(metric, value)
                              THEN "high" ELSE "medium"]]

\* The labelling rule of the training table of run gen: the thresholds of
\* config.py, the low ones for odd runs and the critical ones for even runs.
TargetRule(gen) ==
    IF gen % 2 = 1
    THEN [fan |-> [feature |-> "temperature", above |-> TRUE, threshold |-> 30],
          pump |-> [feature |-> "soil_moisture", above |-> FALSE, threshold |-> 35],
          light |-> [feature |-> "light_intensity", above |-> FALSE, threshold |-> 25]]
    ELSE [fan |-> [feature |-> "temperature", above |-> TRUE, threshold |-> 35],
          pump |-> [feature |-> "soil_moisture", above |-> FALSE, threshold |-> 25],
          light |-> [feature |-> "light_intensity", above |-> FALSE, threshold |-> 40]]

\* model.predict(X)[0] of the forest that run gen fitted for actuator: it
\* reproduces the rule that labelled its training table.
ForestPredict(gen, actuator, sensor_data) ==
    LET rule == TargetRule(gen)[actuator]
    IN  IF rule.above
        THEN sensor_data[rule.feature] > rule.threshold
        ELSE sensor_data[rule.feature] < rule.threshold

\* The first declared feature that the reading lacks, in a list.
MissingFeatures(feature_names, sensor_data) ==
    SelectSeq(feature_names, LAMBDA feature : feature \notin DOMAIN sensor_data)

\* predict with the feature check before the trained check
predict_checks_features_first(models, is_trained, feature_names, sensor_data) ==
    IF Len(MissingFeatures(feature_names, sensor_data)) > 0
    THEN [raised |-> "Missing feature",
          feature |-> MissingFeatures(feature_names, sensor_data)[1],
          predictions |-> EmptyDict]
    ELSE IF ~is_trained
    THEN [raised |-> "Models must be trained before prediction",
          feature |-> "", predictions |-> EmptyDict]
    ELSE [raised |-> "", feature |-> "",
          predictions |-> [actuator \in DOMAIN models |->
                              ForestPredict(models[actuator], actuator, sensor_data)]]

\* predict(sensor_data): the decisions, or the ValueError raised.
predict(models, is_trained, feature_names, sensor_data) ==
    IF ~is_trained
    THEN [raised |-> "Models must be trained before prediction",
          feature |-> "", predictions |-> EmptyDict]
    ELSE IF Len(MissingFeatures(feature_names, sensor_data)) > 0
    THEN [raised |-> "Missing feature",
          feature |-> MissingFeatures(feature_names, sensor_data)[1],
          predictions |-> EmptyDict]
    ELSE [raised |-> "", feature |-> "",
          predictions |-> [actuator \in DOMAIN models |->
                              ForestPredict(models[actuator], actuator, sensor_data)]]

\* predict_with_confidence(sensor_data): (state, confidence) per actuator,
\* the confidence in percent; the forest's leaves are pure.
predict_with_confidence(models, is_trained, feature_names, sensor_data) ==
    IF ~is_trained
    THEN [raised |-> "Models must be trained before prediction",
          feature |-> "", predictions |-> EmptyDict]
    ELSE IF Len(MissingFeatures(feature_names, sensor_data)) > 0
    THEN [raised |-> "Missing feature",
          feature |-> MissingFeatures(feature_names, sensor_data)[1],
          predictions |-> EmptyDict]
    ELSE [raised |-> "", feature |-> "",
          predictions |-> [actuator \in DOMAIN models |->
                              <<ForestPredict(models[actuator], actuator, sensor_data),
                                100>>]]

\* ActuatorController.train run to completion as training run number gen:
\* a new model for every target actuator.
actuator_train(models, target_names, gen) ==
    [models |-> [actuator \in DOMAIN models \cup Elems(target_names) |->
                    IF actuator \in Elems(target_names) THEN gen ELSE models[actuator]],
     is_trained |-> TRUE]

\* The readings passed to the inference methods: every feature and a key
\* the engines do not know, two features only, and a hot, dry, dark reading.
InferenceReadings ==
    {[temperature |-> 26, humidity |-> 62, soil_moisture |-> 55,
      light_intensity |-> 75, pressure |-> 1000],
     [temperature |-> 26, light_intensity |-> 75],
     [temperature |-> 38, humidity |-> 20, soil_moisture |-> 5,
      light_intensity |-> 10]}

\* The horizons passed to predict_future, in hours.
HoursAhead == {1, 2, 3}

\* What np.random.normal returns in the fallback, in quarters.
Noises == {-400, 0, 400}

\* One forecast point with a given value.
PointOf(value) ==
    [time |-> WallTime(FORECAST_INTERVAL_MINUTES),
     minutes_ahead |-> FORECAST_INTERVAL_MINUTES,
     value |-> value,
     confidence |-> [kind |-> "exp", num |-> FORECAST_INTERVAL_MINUTES, den |-> 60]]

\* The forecasts passed to detect_anomalies: a temperature forecast, a
\* humidity forecast that may be empty, a light forecast of two points
\* and no soil_moisture forecast.  Values in quarters.
AnomalyForecasts ==
    {[temperature |-> <<PointOf(t)>>,
      humidity |-> h,
      light_intensity |-> <<PointOf(159), PointOf(0)>>] :
        t \in {95, 96, 104, 105, 108, 127, 128},
        h \in {<<>>, <<PointOf(128)>>, <<PointOf(127)>>, <<PointOf(7)>>}}

\* The live readings passed to detect_anomalies.
AnomalyReadings ==
    {[temperature |-> 40, humidity |-> 62, soil_moisture |-> 55,
      light_intensity |-> 75],
     [temperature |-> -40, humidity |-> 100, pressure |-> 1000],
     [temperature |-> 80, light_intensity |-> 0]}

\* What an inference or training call leaves alone.
InferenceFrame ==
    UNCHANGED <<now, actuator_timers, command_history, current_sensor_data,
                actuator_status, AUTO_CONTROL, handled, reader, extvars>>

\* The actuator engine before an operation.
ActuatorBefore ==
    [models |-> ac_models, is_trained |-> ac_is_trained,
     feature_names |-> ac_feature_names, target_names |-> ac_target_names]

\* predictor.train(table) by a single caller
CallTrendTrain(columns) ==
    /\ trainer.pc = "idle"
    /\ trainer.gen < MaxTrainings
    /\ LET t == train(tp_models, columns, trainer.gen + 1)
       IN  /\ tp_models' = t.models
           /\ tp_poly_features' = t.poly_features
           /\ tp_is_trained' = t.is_trained
    /\ trainer' = [trainer EXCEPT !.gen = @ + 1]
    /\ last' = [op |-> "train", engine |-> "trend", columns |-> columns,
                before |-> TrendBefore]
    /\ UNCHANGED <<ac_models, ac_is_trained>>
    /\ InferenceFrame

\* controller.train(features, targets) by a single caller
CallActuatorTrain ==
    /\ trainer.pc = "idle"
    /\ trainer.gen < MaxTrainings
    /\ LET t == actuator_train(ac_models, ac_target_names, trainer.gen + 1)
       IN  /\ ac_models' = t.models
           /\ ac_is_trained' = t.is_trained
    /\ trainer' = [trainer EXCEPT !.gen = @ + 1]
    /\ last' = [op |-> "train", engine |-> "actuator", before |-> ActuatorBefore]
    /\ UNCHANGED <<tp_models, tp_poly_features, tp_is_trained>>
    /\ InferenceFrame

\* predictor.predict_future(current_data, hours_ahead)
CallPredictFuture(current_data, hours_ahead, noise) ==
    /\ LET r == predict_future(tp_models, tp_poly_features, tp_is_trained,
                               current_data, hours_ahead, noise)
       IN  last' = [op |-> "predict_future", current_data |-> current_data,
                    hours_ahead |-> hours_ahead, raised |-> r.raised,
                    predictions |-> r.predictions, before |-> TrendBefore]
    /\ UNCHANGED <<tp_models, tp_poly_features, tp_is_trained, ac_models,
                   ac_is_trained, trainer>>
    /\ InferenceFrame

\* predictor.detect_anomalies(current_data, predictions)
CallDetectAnomalies(current_data, predictions) ==
    /\ last' = [op |-> "detect_anomalies", current_data |-> current_data,
                predictions |-> predictions,
                anomalies |-> detect_anomalies(current_data, predictions),
                before |-> TrendBefore]
    /\ UNCHANGED <<tp_models, tp_poly_features, tp_is_trained, ac_models,
                   ac_is_trained, trainer>>
    /\ InferenceFrame

\* controller.predict(sensor_data)
CallPredict(sensor_data) ==
    /\ LET r == predict(ac_models, ac_is_trained, ac_feature_names, sensor_data)
       IN  last' = [op |-> "predict", sensor_data |-> sensor_data,
                    raised |-> r.raised, feature |-> r.feature,
                    predictions |-> r.predictions, before |-> ActuatorBefore]
    /\ UNCHANGED <<tp_models, tp_poly_features, tp_is_trained, ac_models,
                   ac_is_trained, trainer>>
    /\ InferenceFrame

\* controller.predict_with_confidence(sensor_data)
CallPredictWithConfidence(sensor_data) ==
    /\ LET r == predict_with_confidence(ac_models, ac_is_trained,
                                        ac_feature_names, sensor_data)
       IN  last' = [op |-> "predict_with_confidence", sensor_data |-> sensor_data,
                    raised |-> r.raised, feature |-> r.feature,
                    predictions |-> r.predictions, before |-> ActuatorBefore]
    /\ UNCHANGED <<tp_models, tp_poly_features, tp_is_trained, ac_models,
                   ac_is_trained, trainer>>
    /\ InferenceFrame

InitInference ==
    /\ InitObjects
    /\ AUTO_CONTROL = TRUE

NextInference ==
    \/ \E columns \in TrainingColumns : CallTrendTrain(columns)
    \/ CallActuatorTrain
    \/ \E current_data \in InferenceReadings, hours_ahead \in HoursAhead,
          noise \in Noises : CallPredictFuture(current_data, hours_ahead, noise)
    \/ \E current_data \in AnomalyReadings, predictions \in AnomalyForecasts :
          CallDetectAnomalies(current_data, predictions)
    \/ \E sensor_data \in InferenceReadings : CallPredict(sensor_data)
    \/ \E sensor_data \in InferenceReadings : CallPredictWithConfidence(sensor_data)

SpecInference == InitInference /\ [][NextInference]_vars

----------------------------------------------------------------------------
(* Persistence: save_models / load_models of both engines.  A file holds   *)
(* the pickled model_data dict; joblib copies by value.                    *)

\* config.TREND_MODEL_PATH and config.ACTUATOR_MODEL_PATH
TREND_MODEL_PATH == "models/trend_model.pkl"
ACTUATOR_MODEL_PATH == "models/actuator_classifier.pkl"

\* The paths passed to save_models and load_models, per engine; every
\* path names a directory, as the default paths do.
TrendPaths == {TREND_MODEL_PATH, "snapshots/trend.pkl"}
ActuatorPaths == {"snapshots/actuator.pkl"}

\* TrendPredictor.save_models(path): the files afterwards.
tp_save_models(disk, path, models, poly_features, history_buffers) ==
    DictSet(disk, path, [models |-> models, poly_features |-> poly_features,
                         history_buffers |-> history_buffers])

\* load_models that forgets self.poly_features
tp_load_models_without_transform(disk, path, engine) ==
    IF path \notin DOMAIN disk
    THEN engine
    ELSE [buffers |-> disk[path].history_buffers,
          models |-> disk[path].models,
          poly_features |-> engine.poly_features,
          is_trained |-> TRUE]

\* TrendPredictor.load_models(path): the engine afterwards.
tp_load_models(disk, path, engine) ==
    IF path \notin DOMAIN disk
    THEN engine
    ELSE [buffers |-> disk[path].history_buffers,
          models |-> disk[path].models,
          poly_features |-> disk[path].poly_features,
          is_trained |-> TRUE]

\* ActuatorController.save_models(path): the files afterwards.
ac_save_models(disk, path, models, feature_names, target_names) ==
    DictSet(disk, path, [models |-> models, feature_names |-> feature_names,
                         target_names |-> target_names])

\* ActuatorController.load_models(path): the engine afterwards.
ac_load_models(disk, path, engine) ==
    IF path \notin DOMAIN disk
    THEN engine
    ELSE [models |-> disk[path].models,
          is_trained |-> TRUE,
          feature_names |-> disk[path].feature_names,
          target_names |-> disk[path].target_names]

\* What a persistence call on the trend engine leaves alone.
TrendStoreFrame ==
    UNCHANGED <<now, actuator_timers, command_history, current_sensor_data,
                actuator_status, AUTO_CONTROL, handled, reader, trainer,
                ac_models, ac_is_trained, ac_feature_names, ac_target_names,
                appended, busvars, threadvars>>

\* What a persistence call on the actuator engine leaves alone.
ActuatorStoreFrame ==
    UNCHANGED <<now, actuator_timers, command_history, current_sensor_data,
                actuator_status, AUTO_CONTROL, handled, reader, trainer,
                tp_models, tp_poly_features, tp_is_trained, histvars, busvars,
                threadvars>>

\* predictor.update_history(now, data) before any snapshot is taken
CallUpdateHistoryEarly(data) ==
    /\ now <= MaxStoredPoints
    /\ files = EmptyDict
    /\ CallUpdateHistory(data)

\* The readings recorded before a first save: those of two metrics, which
\* leave the buffers with different lengths.
StoredReadings ==
    {data \in HistoryReadings : "light_intensity" \notin DOMAIN data}

\* predictor.save_models(path)
CallTrendSave(path) ==
    /\ files' = tp_save_models(files, path, tp_models, tp_poly_features,
                               tp_history_buffers)
    /\ saved' = DictSet(saved, path, TrendBefore)
    /\ last' = [op |-> "save_models", engine |-> "trend", path |-> path,
                before |-> TrendBefore]
    /\ UNCHANGED <<tp_models, tp_poly_features, tp_is_trained,
                   tp_history_buffers, tp_max_buffer_size>>
    /\ TrendStoreFrame

\* The trend engine becomes e.
TrendBecomes(e) ==
    /\ tp_models' = e.models
    /\ tp_poly_features' = e.poly_features
    /\ tp_is_trained' = e.is_trained
    /\ tp_history_buffers' = e.buffers

\* predictor.load_models(path)
CallTrendLoad(path) ==
    /\ TrendBecomes(tp_load_models(files, path, TrendBefore))
    /\ last' = [op |-> "load_models", engine |-> "trend", path |-> path,
                before |-> TrendBefore]
    /\ UNCHANGED <<tp_max_buffer_size, files, saved>>
    /\ TrendStoreFrame

\* predictor = TrendPredictor(): a new engine, which loads the default
\* model file when there is one.
NewTrendPredictor ==
    /\ TrendBecomes(tp_load_models(files, TREND_MODEL_PATH,
                                   [buffers |-> HistoryBuffersInit,
                                    models |-> EmptyDict,
                                    poly_features |-> None,
                                    is_trained |-> FALSE]))
    /\ tp_max_buffer_size' = DefaultMaxBufferSize
    /\ last' = [op |-> "__init__", engine |-> "trend", before |-> TrendBefore]
    /\ UNCHANGED <<files, saved>>
    /\ TrendStoreFrame

\* controller.save_models(path)
CallActuatorSave(path) ==
    /\ files' = ac_save_models(files, path, ac_models, ac_feature_names,
                               ac_target_names)
    /\ saved' = DictSet(saved, path, ActuatorBefore)
    /\ last' = [op |-> "save_models", engine |-> "actuator", path |-> path,
                before |-> ActuatorBefore]
    /\ UNCHANGED <<ac_models, ac_is_trained, ac_feature_names, ac_target_names>>
    /\ ActuatorStoreFrame

\* The actuator engine becomes e.
ActuatorBecomes(e) ==
    /\ ac_models' = e.models
    /\ ac_is_trained' = e.is_trained
    /\ ac_feature_names' = e.feature_names
    /\ ac_target_names' = e.target_names

\* controller.load_models(path)
CallActuatorLoad(path) ==
    /\ ActuatorBecomes(ac_load_models(files, path, ActuatorBefore))
    /\ last' = [op |-> "load_models", engine |-> "actuator", path |-> path,
                before |-> ActuatorBefore]
    /\ UNCHANGED <<files, saved>>
    /\ ActuatorStoreFrame

\* controller = ActuatorController(): a new engine, which loads the
\* default model file when there is one.
NewActuatorController ==
    /\ ActuatorBecomes(ac_load_models(files, ACTUATOR_MODEL_PATH,
                                      [models |-> EmptyDict,
                                       is_trained |-> FALSE,
                                       feature_names |-> FEATURE_NAMES,
                                       target_names |-> TARGET_ACTUATORS]))
    /\ last' = [op |-> "__init__", engine |-> "actuator", before |-> ActuatorBefore]
    /\ UNCHANGED <<files, saved>>
    /\ ActuatorStoreFrame

InitStore ==
    /\ InitObjects
    /\ AUTO_CONTROL = TRUE

NextStore ==
    \/ \E columns \in TrainingColumns : CallTrendTrain(columns)
    \/ CallActuatorTrain
    \/ \E data \in StoredReadings : CallUpdateHistoryEarly(data)
    \/ \E path \in TrendPaths : CallTrendSave(path)
    \/ \E path \in TrendPaths : CallTrendLoad(path)
    \/ NewTrendPredictor
    \/ \E path \in ActuatorPaths : CallActuatorSave(path)
    \/ \E path \in ActuatorPaths : CallActuatorLoad(path)
    \/ NewActuatorController

SpecStore == InitStore /\ [][NextStore]_vars

----------------------------------------------------------------------------
(* The topic plant-iot/sensors/aggregated.  Devices publish their raw      *)
(* readings on it; the sensor-data service subscribes to it and publishes  *)
(* its validated readings on it; the actuator-control service subscribes   *)
(* to it.  The broker delivers every publication to every subscriber, in   *)
(* order.                                                                  *)

\* DataProcessor.RANGES
RANGES ==
    [temperature |-> <<-50, 80>>, humidity |-> <<0, 100>>,
     soil_moisture |-> <<0, 100>>, light_intensity |-> <<0, 100>>]

\* DataProcessor.ANOMALY_THRESHOLDS
ANOMALY_THRESHOLDS ==
    [temperature |-> 15, humidity |-> 25, soil_moisture |-> 30,
     light_intensity |-> 40]

\* DataProcessor.window_size
WindowSize == 20

\* DataProcessor.validate_data(data); a field is an optional value.
validate_data(data) ==
    \A key \in DOMAIN RANGES :
        (key \in DOMAIN data /\ data[key] # None) =>
            (RANGES[key][1] <= data[key][1] /\ data[key][1] <= RANGES[key][2])

\* DataProcessor.assess_quality(data)
assess_quality(data) ==
    LET outside == {key \in DOMAIN RANGES :
                       /\ key \in DOMAIN data
                       /\ data[key] # None
                       /\ ~(RANGES[key][1] <= data[key][1]
                            /\ data[key][1] <= RANGES[key][2])}
        deducted == 100 - 10 * Cardinality(outside)
        quality_score == IF deducted < 90 THEN Max(0, deducted - 5) ELSE deducted
    IN  IF quality_score >= 90 THEN "excellent"
        ELSE IF quality_score >= 75 THEN "good"
        ELSE IF quality_score >= 50 THEN "fair"
        ELSE "poor"

\* The anomalies that DataProcessor.detect_anomalies(data) returns.
processor_anomalies(data, expected_values) ==
    LET keys == SelectSeq(Metrics, LAMBDA key :
                    /\ key \in DOMAIN data
                    /\ data[key] # None
                    /\ Abs(data[key][1] - expected_values[key]) > ANOMALY_THRESHOLDS[key])
    IN  [n \in 1..Len(keys) |->
            [sensor |-> keys[n], value |-> data[keys[n]][1],
             expected |-> expected_values[keys[n]],
             deviation |-> Abs(data[keys[n]][1] - expected_values[keys[n]])]]

\* deque(maxlen=window_size).append(data)
HistoryAppend(history, data) ==
    IF Len(history) = WindowSize
    THEN Append(Tail(history), data)
    ELSE Append(history, data)

RECURSIVE SumOf(_)
SumOf(seq) == IF seq = <<>> THEN 0 ELSE Head(seq) + SumOf(Tail(seq))

\* DataProcessor._update_expected_values(), run once the window is full:
\* the mean of the window's values, to the whole number below.
update_expected_values(history, expected_values) ==
    IF Len(history) # WindowSize
    THEN expected_values
    ELSE [key \in DOMAIN expected_values |->
            LET present == SelectSeq(history, LAMBDA d :
                               key \in DOMAIN d /\ d[key] # None)
                values == [n \in 1..Len(present) |-> present[n][key][1]]
            IN  IF Len(values) = 0 THEN expected_values[key]
                ELSE SumOf(values) \div Len(values)]

\* A publication on the topic: its JSON payload and who published it.
Message(payload, origin) == [payload |-> payload, origin |-> origin]

\* The broker hands a publication to every subscriber.
Deliver(boxes, message) ==
    [svc \in DOMAIN boxes |-> Append(boxes[svc], message)]

\* The payloads devices publish: a reading within the ranges, one
\* within the ranges and far from the expected soil moisture, one with the
\* alternative key names and a temperature beyond the range, one with a
\* humidity beyond the range, and one without humidity.
RawPayloads ==
    {[temperature |-> 25, humidity |-> 60, soil_moisture |-> 50,
      light_intensity |-> 50],
     [temperature |-> 30, humidity |-> 55, soil_moisture |-> 15,
      light_intensity |-> 50],
     [temperature |-> 95, humidity |-> 60, soil_moisture_percent |-> 50,
      light_percent |-> 10],
     [temperature |-> 25, humidity |-> 120, soil_moisture |-> 20,
      light_intensity |-> 50],
     [temperature |-> 33, soil_moisture |-> 50]}

\* aggregated_data of the sensor-data service's on_message.
AggregatedData(payload) ==
    [temperature |-> PayloadGet(payload, "temperature"),
     humidity |-> PayloadGet(payload, "humidity"),
     soil_moisture |-> PayloadGetEither(payload, "soil_moisture_percent",
                                        "soil_moisture"),
     light_intensity |-> IF "light_percent" \in DOMAIN payload
                         THEN Some(payload["light_percent"])
                         ELSE IF "light_intensity" \in DOMAIN payload
                         THEN Some(payload["light_intensity"])
                         ELSE Some(0),
     timestamp |-> IF "timestamp" \in DOMAIN payload
                   THEN Some(payload["timestamp"])
                   ELSE Some(Millis(now))]

\* The payload of DataPublisher.publish_aggregated(data).
AggregatedPayload(data) ==
    [timestamp |-> data["timestamp"][1],
     temperature |-> data["temperature"][1],
     humidity |-> data["humidity"][1],
     soil_moisture |-> data["soil_moisture"][1],
     light_intensity |-> data["light_intensity"][1],
     quality |-> IF "quality" \in DOMAIN data THEN data["quality"][1] ELSE "good"]

\* What a step of the topic leaves alone in the machine-learning engines.
BusFrame ==
    UNCHANGED <<tp_models, tp_poly_features, tp_is_trained, ac_models,
                ac_is_trained, trainer, reader, histvars, storevars, threadvars>>

\* A device or simulator publishes a reading on the topic.
DevicePublish(payload) ==
    /\ published < MaxPublished
    /\ published' = published + 1
    /\ inbox' = Deliver(inbox, Message(payload, "device"))
    /\ UNCHANGED <<svcvars, sds_sensor_data, sds_data_history, sds_expected_values,
                   anomalies_topic>>
    /\ BusFrame

\* sensor-data-service on_message for the topic, with
\* process_aggregated_data: a reading with temperature, humidity and
\* soil moisture replaces sensor_data and, when validate_data accepts it,
\* is assessed, recorded by detect_anomalies and published.
SensorServiceOnMessage ==
    /\ inbox["sensor-data-service"] # <<>>
    /\ Len(inbox["actuator-control"]) < MaxInbox
    /\ LET payload == Head(inbox["sensor-data-service"]).payload
           rest == [inbox EXCEPT !["sensor-data-service"] = Tail(@)]
           aggregated_data == AggregatedData(payload)
           complete == /\ aggregated_data["temperature"] # None
                       /\ aggregated_data["humidity"] # None
                       /\ aggregated_data["soil_moisture"] # None
           is_valid == validate_data(aggregated_data)
           assessed == [key \in DOMAIN aggregated_data \cup {"quality"} |->
                           IF key = "quality"
                           THEN Some(assess_quality(aggregated_data))
                           ELSE aggregated_data[key]]
           anomalies == processor_anomalies(assessed, sds_expected_values)
           history == HistoryAppend(sds_data_history, assessed)
       IN  IF ~complete
           THEN /\ inbox' = rest
                /\ UNCHANGED <<sds_sensor_data, sds_data_history, sds_expected_values,
                               anomalies_topic>>
           ELSE IF ~is_valid
           THEN /\ inbox' = rest
                /\ sds_sensor_data' = aggregated_data
                /\ UNCHANGED <<sds_data_history, sds_expected_values, anomalies_topic>>
           ELSE /\ inbox' = Deliver(rest, Message(AggregatedPayload(assessed),
                                                  "sensor-data-service"))
                /\ sds_sensor_data' = assessed
                /\ sds_data_history' = history
                /\ sds_expected_values' =
                       update_expected_values(history, sds_expected_values)
                /\ anomalies_topic' = IF anomalies # <<>> THEN Some(anomalies)
                                      ELSE anomalies_topic
    /\ UNCHANGED <<svcvars, published>>
    /\ BusFrame

\* actuator-control on_message for the topic: the reading is stored in
\* current_sensor_data and, with AUTO_CONTROL, perform_auto_control runs.
ActuatorServiceOnMessage ==
    /\ inbox["actuator-control"] # <<>>
    /\ LET message == Head(inbox["actuator-control"])
           stored == SensorUpdate(current_sensor_data, message.payload)
           o == IF AUTO_CONTROL
                THEN perform_auto_control(stored, actuator_timers, command_history,
                                          actuator_status, now)
                ELSE Outcome(actuator_timers, command_history, actuator_status,
                             <<>>, <<>>)
       IN  /\ inbox' = [inbox EXCEPT !["actuator-control"] = Tail(@)]
           /\ current_sensor_data' = stored
           /\ actuator_timers' = o.timers
           /\ command_history' = o.history
           /\ actuator_status' = o.status
           /\ last' = [op |-> "on_message", topic |-> "plant-iot/sensors/aggregated",
                       payload |-> message.payload, origin |-> message.origin,
                       calls |-> o.calls, log |-> o.log]
    /\ UNCHANGED <<now, AUTO_CONTROL, handled, sds_sensor_data, sds_data_history,
                   sds_expected_values, anomalies_topic, published>>
    /\ BusFrame

InitBus ==
    /\ InitObjects
    /\ AUTO_CONTROL \in BOOLEAN

NextBus ==
    \/ \E payload \in RawPayloads : DevicePublish(payload)
    \/ SensorServiceOnMessage
    \/ ActuatorServiceOnMessage

SpecBus == InitBus /\ [][NextBus]_vars

\* The broker delivers and both services handle what waits for them; the
\* devices may stop publishing at any time.
SpecBusRunning ==
    /\ SpecBus
    /\ WF_vars(SensorServiceOnMessage)
    /\ WF_vars(ActuatorServiceOnMessage)

----------------------------------------------------------------------------
(* Properties of ControlLogic, checked under SpecControl                   *)

IsOn(timer) == timer.start_time # None
IsOff(timer) == timer.start_time = None /\ timer.duration = 0

\* C1: immediately after deactivate_all() returns, pump, fan and grow_light
\* are all OFF (start_time None, duration 0, get_status reports OFF),
\* whatever states preceded the call.
C1_DeactivateAllLeavesAllOff ==
    last.op = "deactivate_all" =>
        \A a \in Actuators :
            /\ actuator_timers[a].start_time = None
            /\ actuator_timers[a].duration = 0
            /\ get_status(actuator_timers, a, now) = [status |-> "OFF"]

\* deactivate_all has returned from a state with one actuator ON with a
\* duration, one ON indefinitely and one OFF.
C1_Witness ==
    /\ last.op = "deactivate_all"
    /\ \E a, b, c \in Actuators :
        /\ IsOn(last.before[a]) /\ last.before[a].duration > 0
        /\ IsOn(last.before[b]) /\ last.before[b].duration = 0
        /\ IsOff(last.before[c])
    /\ \A a \in Actuators : IsOff(actuator_timers[a])

\* C2: check_duration_expired() at time t turns an actuator that was
\* activated at t0 with duration d > 0 OFF if and only if t - t0 > d; an
\* actuator that is OFF, or ON with duration 0, or ON with t - t0 <= d is
\* left exactly as it was; all expired actuators go OFF in the same call.
C2_ExpiryIffStrictlyPastDuration ==
    last.op = "check_duration_expired" =>
        \A a \in Actuators :
            LET b == last.before[a]
            IN  IF /\ b.start_time # None
                   /\ b.duration > 0
                   /\ now - b.start_time[1] > b.duration
                THEN IsOff(actuator_timers[a])
                ELSE actuator_timers[a] = b

\* One call has switched off two expired actuators and left ON a third
\* whose elapsed time equals its duration exactly.
C2_Witness ==
    /\ last.op = "check_duration_expired"
    /\ \E a, b, c \in Actuators :
        /\ a # b
        /\ IsOn(last.before[a]) /\ IsOff(actuator_timers[a])
        /\ IsOn(last.before[b]) /\ IsOff(actuator_timers[b])
        /\ IsOn(actuator_timers[c])
        /\ actuator_timers[c].duration > 0
        /\ now - actuator_timers[c].start_time[1] = actuator_timers[c].duration

ActivateOps == {"activate_pump", "activate_fan", "activate_light"}

OpsOn(a) ==
    CASE a = "pump" -> {"activate_pump", "deactivate_pump", "deactivate_all"}
      [] a = "fan" -> {"activate_fan", "deactivate_fan", "deactivate_all"}
      [] a = "grow_light" -> {"activate_light", "deactivate_light", "deactivate_all"}

\* C8: activate_X(duration) leaves X in ON(start_time = now, duration) from
\* OFF and from ON alike (an earlier start time and duration are replaced)
\* and leaves the other two timers unchanged; a timer that is ON with
\* duration 0 is changed only by an activate or deactivate of that actuator
\* or by deactivate_all.
C8_ActivateRestartsTimer ==
    /\ last.op \in ActivateOps =>
          \A a \in Actuators :
              IF a = last.actuator
              THEN actuator_timers[a] =
                       [start_time |-> Some(now), duration |-> last.duration]
              ELSE actuator_timers[a] = last.before[a]
    /\ \A a \in Actuators :
          (/\ IsOn(last.before[a])
           /\ last.before[a].duration = 0
           /\ actuator_timers[a] # last.before[a]) => last.op \in OpsOn(a)

\* The fan, ON since an earlier time with another duration, has been
\* activated again while the pump was ON.
C8_Witness ==
    /\ last.op = "activate_fan"
    /\ IsOn(last.before["fan"])
    /\ last.before["fan"].start_time[1] < now
    /\ last.before["fan"].duration # last.duration
    /\ IsOn(last.before["pump"])
    /\ actuator_timers["fan"] = [start_time |-> Some(now), duration |-> last.duration]

\* C9: get_status(a) returns {status: OFF} when a is not active or not a
\* known actuator; otherwise ON with elapsed = now - start_time and
\* remaining = duration - elapsed when duration > 0, -1 when duration = 0;
\* it changes no timer.
C9_GetStatusReport ==
    last.op = "get_status" =>
        /\ actuator_timers = last.before
        /\ IF last.actuator \notin Actuators
           THEN last.ret = [status |-> "OFF"]
           ELSE LET tm == actuator_timers[last.actuator]
                IN  IF tm.start_time = None
                    THEN last.ret = [status |-> "OFF"]
                    ELSE /\ last.ret.status = "ON"
                         /\ last.ret.elapsed = now - tm.start_time[1]
                         /\ tm.duration > 0 =>
                                last.ret.remaining = tm.duration - last.ret.elapsed
                         /\ tm.duration = 0 => last.ret.remaining = -1

\* get_status has reported an actuator that is ON indefinitely, some time
\* after its activation.
C9_Witness ==
    /\ last.op = "get_status"
    /\ last.actuator \in Actuators
    /\ IsOn(actuator_timers[last.actuator])
    /\ actuator_timers[last.actuator].duration = 0
    /\ last.ret.status = "ON"
    /\ last.ret.elapsed > 0
    /\ last.ret.remaining = -1

----------------------------------------------------------------------------
(* Properties of SafetyManager, checked under SpecSafety                   *)

WellFormed(op) ==
    /\ op.actuator \in Actuators
    /\ op.action \in {"ON", "OFF"}
    /\ op.duration >= 0

\* The number of commands for actuator a accepted less than 60 seconds
\* before time t.
AcceptedInLastMinute(history, a, t) ==
    IF a \in DOMAIN history
    THEN Cardinality({i \in 1..Len(history[a]) : t - history[a][i] < 60})
    ELSE 0

\* C3: once 10 validate_command calls for an actuator have returned True
\* within the last 60 seconds, the next well-formed validate_command call
\* for that actuator returns False, for every actuator and for ON and OFF.
C3_EleventhCommandRejected ==
    [][(/\ last'.op = "validate_command"
        /\ WellFormed(last')
        /\ AcceptedInLastMinute(command_history, last'.actuator, now) >= 10)
       => last'.ret.ok = FALSE]_vars

\* An OFF command has been rejected by the rate limit: the window holds the
\* 10 commands accepted in the last minute.
C3_Witness ==
    /\ last.op = "validate_command"
    /\ WellFormed(last)
    /\ last.action = "OFF"
    /\ last.ret.ok = FALSE
    /\ AcceptedInLastMinute(command_history, last.actuator, now) = 10
    /\ \E i \in 1..Len(last.log) : last.log[i].msg = "Rate limit exceeded"

\* The message logged by the first failing check of a malformed command.
FirstFailure(op) ==
    IF op.actuator \notin Actuators THEN "Unknown actuator"
    ELSE IF op.action \notin {"ON", "OFF"} THEN "Invalid action"
    ELSE "Negative duration"

\* C6: validate_command returns False and leaves every command window as it
\* was (nothing recorded, pruned or created) when the actuator is unknown,
\* or the action is not ON or OFF, or the duration is negative; the checks
\* run in that order and only the first failure is reported.
C6_MalformedCommandRejectedUntouched ==
    [][(last'.op = "validate_command" /\ ~WellFormed(last'))
       => /\ last'.ret.ok = FALSE
          /\ command_history' = command_history
          /\ last'.log = <<LogLine(FirstFailure(last'), last'.actuator)>>]_vars

\* A command with an unknown action and a negative duration has been
\* rejected for an actuator whose window still holds a command older than
\* a minute, while another actuator has no window at all.
C6_Witness ==
    /\ last.op = "validate_command"
    /\ last.actuator \in Actuators
    /\ last.action = "TOGGLE"
    /\ last.duration < 0
    /\ last.ret.ok = FALSE
    /\ last.actuator \in DOMAIN command_history
    /\ \E i \in 1..Len(command_history[last.actuator]) :
          now - command_history[last.actuator][i] >= 60
    /\ \E a \in Actuators : a \notin DOMAIN command_history

----------------------------------------------------------------------------
(* Properties of the service, checked under Spec                           *)

SwitchCalls ==
    {"activate_pump", "deactivate_pump", "activate_fan", "deactivate_fan",
     "activate_light", "deactivate_light"}

\* C4: every activate_* / deactivate_* call made by a handler, for a manual
\* command or by perform_auto_control, is preceded in the same handler run
\* by a validate_command call for that actuator and action that returned
\* True; only the emergency stop (deactivate_all) bypasses the validator.
C4_EverySwitchValidated ==
    \A i \in 1..Len(last.calls) :
        last.calls[i].fn \in SwitchCalls =>
            \E j \in 1..(i - 1) :
                /\ last.calls[j].fn = "validate_command"
                /\ last.calls[j].actuator = last.calls[i].actuator
                /\ last.calls[j].action = last.calls[i].action
                /\ last.calls[j].ret = TRUE

\* The temperature of the latest reading is above 40 degrees.
TemperatureAbove40(sensor_data) ==
    /\ "temperature" \in DOMAIN sensor_data
    /\ sensor_data["temperature"] # None
    /\ sensor_data["temperature"][1] > 40

LightBlocked(op) ==
    /\ op.op = "handle_light_command"
    /\ \E i \in 1..Len(op.log) :
          op.log[i].msg = "Cannot activate grow light: Temperature too high"

\* C5: no step switches the grow light from OFF to ON while the latest
\* temperature reading is above 40 degrees, by a manual command or by
\* auto-control; a blocked activation leaves the grow-light timer and its
\* status record unchanged.
C5_NoGrowLightWhenHot ==
    [][/\ (/\ actuator_timers["grow_light"].start_time = None
           /\ actuator_timers'["grow_light"].start_time # None)
          => ~TemperatureAbove40(current_sensor_data')
       /\ LightBlocked(last')
          => /\ actuator_timers'["grow_light"] = actuator_timers["grow_light"]
             /\ actuator_status'["grow_light"] = actuator_status["grow_light"]]_vars

HandlerOf(a) ==
    CASE a = "pump" -> "handle_pump_command"
      [] a = "fan" -> "handle_fan_command"
      [] a = "grow_light" -> "handle_light_command"

CapOf(a) ==
    CASE a = "pump" -> 1800
      [] a = "fan" -> 3600
      [] a = "grow_light" -> 14400

\* The grow-light interlock lets an ON command through: the temperature the
\* handler reads (0 when no reading was ever stored) is a number <= 40.
InterlockOpen(a, sensor_data) ==
    a = "grow_light" =>
        \/ "temperature" \notin DOMAIN sensor_data
        \/ /\ sensor_data["temperature"] # None
           /\ sensor_data["temperature"][1] <= 40

----------------------------------------------------------------------------
(* Properties of the machine-learning engines, checked under SpecML        *)

\* C10: an inference call on a trained engine that runs while train()
\* replaces the model set reads either the complete old model set or the
\* complete new one: it never fails on a half-built feature transform, and
\* all the models (and, for the trend engine, the feature transform) it
\* read come from one training run.
C10_InferenceSeesOneModelSet ==
    (reader.pc = "done" /\ reader.path = "trained") =>
        /\ reader.error = ""
        /\ \A i, j \in 1..Len(reader.seen) :
              /\ reader.seen[i].model = reader.seen[j].model
              /\ reader.seen[i].poly = reader.seen[j].model

\* C11: when train() raises while fitting the k-th metric or actuator, the
\* engine holds exactly the models, feature transform and is_trained flags
\* it had before the call.
C11_FailedTrainingLeavesEngineUnchanged ==
    trainer.pc = "raised" => ModelSets = trainer.start

----------------------------------------------------------------------------
(* Properties of the history buffers, checked under SpecHistory            *)

\* C12: retrain_online() changes nothing when every history buffer holds
\* 10 or fewer points; when some buffer holds more than 10 points it
\* completes training without raising and leaves is_trained true.
C12_RetrainOnlineNoOpOrTrains ==
    last.op = "retrain_online" =>
        IF \A metric \in DOMAIN last.before.buffers :
               Len(last.before.buffers[metric]) <= 10
        THEN TrendBefore = last.before
        ELSE /\ last.raised = ""
             /\ last.retrained
             /\ tp_is_trained

\* The last n entries of a list.
LastEntries(seq, n) ==
    IF Len(seq) <= n THEN seq ELSE SubSeq(seq, Len(seq) - n + 1, Len(seq))

\* C13: every history buffer holds at most max_buffer_size entries, namely
\* the most recent ones appended for its metric, in arrival order; one
\* update_history call appends exactly one (timestamp, value) pair to the
\* buffer of every known metric of the reading and leaves the other
\* buffers unchanged.
C13_BuffersHoldMostRecentEntries ==
    /\ \A metric \in DOMAIN tp_history_buffers :
          /\ Len(tp_history_buffers[metric]) <= tp_max_buffer_size
          /\ tp_history_buffers[metric] =
                 LastEntries(appended[metric], tp_max_buffer_size)
    /\ last.op = "update_history" =>
          /\ DOMAIN tp_history_buffers = DOMAIN last.before.buffers
          /\ \A metric \in DOMAIN tp_history_buffers :
                IF metric \in DOMAIN last.data
                THEN /\ tp_history_buffers[metric][Len(tp_history_buffers[metric])]
                            = <<last.timestamp, last.data[metric]>>
                     /\ Len(appended[metric]) > 0
                     /\ appended[metric][Len(appended[metric])]
                            = <<last.timestamp, last.data[metric]>>
                     /\ LET old == last.before.buffers[metric]
                            new == tp_history_buffers[metric]
                        IN  IF Len(old) < tp_max_buffer_size
                            THEN SubSeq(new, 1, Len(new) - 1) = old
                            ELSE SubSeq(new, 1, Len(new) - 1) = Tail(old)
                ELSE tp_history_buffers[metric] = last.before.buffers[metric]

\* An update evicted the oldest temperature entry of a full buffer while
\* the reading had no soil_moisture, whose buffer is not empty.
C13_Witness ==
    /\ last.op = "update_history"
    /\ Len(appended["temperature"]) > tp_max_buffer_size
    /\ "soil_moisture" \notin DOMAIN last.data
    /\ Len(tp_history_buffers["soil_moisture"]) > 0
    /\ "pressure" \notin DOMAIN tp_history_buffers

----------------------------------------------------------------------------
(* Properties of forecasts, anomalies and decisions, checked under         *)
(* SpecInference                                                           *)

\* The forecast of the last predict_future call for one metric.
ForecastOf(metric) == last.predictions[metric]

\* C14: on a trained engine predict_future returns a forecast for exactly
\* the metrics present both in the reading and in the model set; each
\* forecast has exactly floor(hours_ahead * 60 / 30) points whose
\* minutes_ahead are 30, 60, 90, ...; a reading metric without a model gets
\* no forecast.
C14_ForecastPerCommonMetric ==
    (last.op = "predict_future" /\ last.before.is_trained) =>
        /\ last.raised = ""
        /\ DOMAIN last.predictions =
               DOMAIN last.current_data \cap DOMAIN last.before.models
        /\ \A metric \in DOMAIN last.predictions :
              /\ Len(ForecastOf(metric)) = (last.hours_ahead * 60) \div 30
              /\ \A i \in 1..Len(ForecastOf(metric)) :
                    ForecastOf(metric)[i].minutes_ahead = 30 * i

\* A trained engine without a light_intensity model forecast a reading
\* that has light_intensity, three hours ahead.
C14_Witness ==
    /\ last.op = "predict_future"
    /\ last.before.is_trained
    /\ "light_intensity" \in DOMAIN last.current_data
    /\ "light_intensity" \notin DOMAIN last.before.models
    /\ "temperature" \in DOMAIN last.predictions
    /\ last.hours_ahead = 3
    /\ Len(ForecastOf("temperature")) = 6

\* A confidence lies in [0, 1].
ConfidenceInUnit(c) ==
    IF c.kind = "ratio"
    THEN c.den > 0 /\ 0 <= c.num /\ c.num <= c.den
    ELSE c.den > 0 /\ c.num >= 0          \* exp(-x) is in (0, 1] iff x >= 0

\* Confidence c is at most confidence d (both of one kind).
ConfidenceAtMost(c, d) ==
    IF c.kind = "ratio"
    THEN c.num * d.den <= d.num * c.den
    ELSE c.num * d.den >= d.num * c.den   \* exp(-x) <= exp(-y) iff x >= y

\* C15: within one predict_future call, trained or fallback, every
\* confidence lies in [0, 1] and never increases with minutes_ahead; the
\* fallback's confidence is max(0.3, 1 - elapsed fraction of the horizon).
C15_ConfidenceBoundedNonIncreasing ==
    (last.op = "predict_future" /\ last.raised = "") =>
        \A metric \in DOMAIN last.predictions :
            \A i \in 1..Len(ForecastOf(metric)) :
                LET p == ForecastOf(metric)[i]
                IN  /\ ConfidenceInUnit(p.confidence)
                    /\ p.confidence.kind = (IF last.before.is_trained
                                            THEN "exp" ELSE "ratio")
                    /\ \A j \in 1..(i - 1) :
                          /\ ForecastOf(metric)[j].minutes_ahead < p.minutes_ahead
                          /\ ConfidenceAtMost(p.confidence,
                                              ForecastOf(metric)[j].confidence)
                    /\ ~last.before.is_trained =>
                          600 * last.hours_ahead * p.confidence.num =
                              p.confidence.den *
                                  Max(180 * last.hours_ahead,
                                      600 * last.hours_ahead - 10 * p.minutes_ahead)

\* A fallback forecast whose confidence fell from above 0.3 to the floor.
C15_Witness ==
    /\ last.op = "predict_future"
    /\ ~last.before.is_trained
    /\ \E metric \in DOMAIN last.predictions :
          \E i, j \in 1..Len(ForecastOf(metric)) :
              /\ i < j
              /\ 10 * ForecastOf(metric)[j].confidence.num
                     = 3 * ForecastOf(metric)[j].confidence.den
              /\ ~ConfidenceAtMost(ForecastOf(metric)[i].confidence,
                                   ForecastOf(metric)[j].confidence)

\* C19: every forecast point that predict_future returns, on the trained
\* path as on the fallback path, has a temperature value within [10, 40]
\* and a soil_moisture value within [0, 100].
C19_ForecastValuesInRange ==
    (last.op = "predict_future" /\ last.raised = "") =>
        /\ "temperature" \in DOMAIN last.predictions =>
              \A i \in 1..Len(ForecastOf("temperature")) :
                  /\ ForecastOf("temperature")[i].value >= 10 * ValueScale
                  /\ ForecastOf("temperature")[i].value <= 40 * ValueScale
        /\ "soil_moisture" \in DOMAIN last.predictions =>
              \A i \in 1..Len(ForecastOf("soil_moisture")) :
                  /\ ForecastOf("soil_moisture")[i].value >= 0
                  /\ ForecastOf("soil_moisture")[i].value <= 100 * ValueScale

\* The records of the last detect_anomalies call about one metric.
RecordsOf(metric) ==
    {n \in 1..Len(last.anomalies) : last.anomalies[n].metric = metric}

\* 400 times the threshold the claim gives for a metric and a live value.
ClaimedThreshold400(metric, live) ==
    IF metric = "temperature" THEN Max(3200, 60 * Abs(live))
    ELSE IF metric = "light_intensity" THEN Max(14000, 160 * Abs(live))
    ELSE Max(12000, 160 * Abs(live))

\* C16: detect_anomalies emits at most one record per metric, only for
\* metrics present in both arguments with a non-empty forecast, comparing
\* the live value with the first forecast point: a record is emitted iff
\* |live - predicted| is strictly greater than the metric's threshold, with
\* severity high iff the deviation exceeds twice the threshold and medium
\* otherwise; live temperature 40 against a nearest forecast of 26 to 27
\* yields a temperature record.
C16_AnomalyIffDeviationAboveThreshold ==
    last.op = "detect_anomalies" =>
        /\ \A n \in 1..Len(last.anomalies) :
              LET a == last.anomalies[n]
              IN  /\ a.metric \in DOMAIN last.current_data
                  /\ a.metric \in DOMAIN last.predictions
                  /\ Len(last.predictions[a.metric]) > 0
                  /\ Cardinality(RecordsOf(a.metric)) = 1
                  /\ a.current_value = last.current_data[a.metric]
                  /\ a.predicted_value = last.predictions[a.metric][1].value
        /\ \A metric \in DOMAIN last.current_data \cap DOMAIN last.predictions :
              Len(last.predictions[metric]) > 0 =>
                  LET live == last.current_data[metric]
                      \* 400 * |live - predicted|, the forecast being in quarters
                      dev400 == 100 * Abs(4 * live - last.predictions[metric][1].value)
                      thr400 == ClaimedThreshold400(metric, live)
                  IN  /\ (RecordsOf(metric) # {}) <=> (dev400 > thr400)
                      /\ \A n \in RecordsOf(metric) :
                            last.anomalies[n].severity =
                                (IF dev400 > 2 * thr400 THEN "high" ELSE "medium")
        /\ ( /\ "temperature" \in DOMAIN last.current_data
             /\ last.current_data["temperature"] = 40
             /\ last.predictions["temperature"][1].value >= 26 * 4
             /\ last.predictions["temperature"][1].value <= 27 * 4 )
           => RecordsOf("temperature") # {}

\* One call reported a high and a medium anomaly and skipped a metric whose
\* deviation equals its threshold.
C16_Witness ==
    /\ last.op = "detect_anomalies"
    /\ \E n, k \in 1..Len(last.anomalies) :
          /\ last.anomalies[n].severity = "high"
          /\ last.anomalies[k].severity = "medium"
    /\ \E metric \in DOMAIN last.current_data \cap DOMAIN last.predictions :
          /\ Len(last.predictions[metric]) > 0
          /\ 100 * Abs(4 * last.current_data[metric]
                         - last.predictions[metric][1].value)
                 = ClaimedThreshold400(metric, last.current_data[metric])
          /\ last.current_data[metric] # 0
          /\ RecordsOf(metric) = {}

\* C17: predict and predict_with_confidence raise and return no decision
\* when the engine is untrained (checked first) or when a declared feature
\* is absent from the reading; a successful call returns one boolean per
\* actuator; in every case the engine is unchanged.
C17_PredictRaisesOrDecides ==
    last.op \in {"predict", "predict_with_confidence"} =>
        /\ ActuatorBefore = last.before
        /\ IF ~last.before.is_trained
           THEN /\ last.raised = "Models must be trained before prediction"
                /\ last.predictions = EmptyDict
           ELSE IF {"temperature", "humidity", "soil_moisture", "light_intensity"}
                       \ DOMAIN last.sensor_data # {}
           THEN /\ last.raised = "Missing feature"
                /\ last.feature \notin DOMAIN last.sensor_data
                /\ last.predictions = EmptyDict
           ELSE /\ last.raised = ""
                /\ DOMAIN last.predictions = {"fan", "pump", "light"}
                /\ \A actuator \in DOMAIN last.predictions :
                      IF last.op = "predict"
                      THEN last.predictions[actuator] \in BOOLEAN
                      ELSE last.predictions[actuator][1] \in BOOLEAN

\* predict was refused on an untrained engine for a reading that also
\* lacks a feature.
C17_Witness ==
    /\ last.op = "predict"
    /\ ~last.before.is_trained
    /\ "humidity" \notin DOMAIN last.sensor_data
    /\ last.raised = "Models must be trained before prediction"

----------------------------------------------------------------------------
(* Properties of persistence, checked under SpecStore                      *)

\* The forecasts of a trend engine e, for every reading and horizon.
ForecastsOf(e) ==
    [q \in InferenceReadings \X HoursAhead |->
        predict_future(e.models, e.poly_features, e.is_trained, q[1], q[2], 0)]

\* The decisions of an actuator engine e, for every reading.
DecisionsOf(e) ==
    [sensor_data \in InferenceReadings |->
        predict(e.models, e.is_trained, e.feature_names, sensor_data)]

\* C18: load_models(p) of a file that a trained engine saved yields an
\* engine with is_trained true whose model set (and name lists, feature
\* transform and history buffers) equals the saved one, so that its
\* predictions equal those of the saving engine; save_models leaves the
\* saving engine unchanged; load_models of a path that does not exist
\* leaves the loading engine unchanged.
C18_SaveLoadRoundTrip ==
    /\ (last.op = "load_models" /\ last.engine = "trend") =>
          IF last.path \in DOMAIN files
          THEN saved[last.path].is_trained =>
                  /\ tp_is_trained
                  /\ TrendBefore = saved[last.path]
                  /\ ForecastsOf(TrendBefore) = ForecastsOf(saved[last.path])
          ELSE TrendBefore = last.before
    /\ (last.op = "load_models" /\ last.engine = "actuator") =>
          IF last.path \in DOMAIN files
          THEN saved[last.path].is_trained =>
                  /\ ac_is_trained
                  /\ ActuatorBefore = saved[last.path]
                  /\ DecisionsOf(ActuatorBefore) = DecisionsOf(saved[last.path])
          ELSE ActuatorBefore = last.before
    /\ (last.op = "save_models" /\ last.engine = "trend") =>
          TrendBefore = last.before
    /\ (last.op = "save_models" /\ last.engine = "actuator") =>
          ActuatorBefore = last.before

\* A new, untrained trend engine loaded the snapshot of a trained engine
\* that holds history, and now forecasts with its models.
C18_Witness ==
    /\ last.op = "load_models"
    /\ last.engine = "trend"
    /\ last.path \in DOMAIN files
    /\ ~last.before.is_trained
    /\ last.before.models = EmptyDict
    /\ saved[last.path].is_trained
    /\ Len(tp_history_buffers["temperature"]) > 0
    /\ "temperature" \in DOMAIN tp_models

----------------------------------------------------------------------------
(* Properties of the sensor topic, checked under SpecBus                   *)

\* A stored or published reading lies within the validator's ranges.
WithinRanges(reading) ==
    /\ "temperature" \in DOMAIN reading =>
          (reading["temperature"] >= -50 /\ reading["temperature"] <= 80)
    /\ \A key \in {"humidity", "soil_moisture", "light_intensity"} :
          key \in DOMAIN reading => (reading[key] >= 0 /\ reading[key] <= 100)

\* The present fields of current_sensor_data.
StoredReading ==
    [key \in {k \in DOMAIN current_sensor_data : current_sensor_data[k] # None} |->
        current_sensor_data[key][1]]

\* C20: every reading that the actuator-control service stores in
\* current_sensor_data and feeds to perform_auto_control has passed
\* DataProcessor.validate_data, so none has an out-of-range field, and the
\* sensor-data service never republishes a reading that failed it.
C20_OnlyValidatedReadingsReachControl ==
    /\ last.op = "on_message" =>
          /\ last.origin = "sensor-data-service"
          /\ WithinRanges(StoredReading)
    /\ \A svc \in DOMAIN inbox :
          \A n \in 1..Len(inbox[svc]) :
              inbox[svc][n].origin = "sensor-data-service" =>
                  WithinRanges(inbox[svc][n].payload)

\* The window of actuator a, empty when the actuator has none yet.
WindowOf(history, a) == IF a \in DOMAIN history THEN history[a] ELSE <<>>

\* The entries of a window that are less than 60 seconds old at time t.
StillFresh(window, t) == SelectSeq(window, LAMBDA cmd_time : t - cmd_time < 60)

\* C21: rate limiting is per actuator: a validate_command call appends
\* exactly one timestamp to the named actuator's window when it returns True
\* and nothing when it returns False, and never changes the window of
\* another actuator; a well-formed command is rejected only when its own
\* actuator's window holds 10 commands of the last minute, however many
\* commands other actuators received.
C21_RateLimitPerActuator ==
    [][last'.op = "validate_command"
       => LET a == last'.actuator
              window == WindowOf(command_history, a)
              after == WindowOf(command_history', a)
          IN  /\ \A b \in DOMAIN command_history \ {a} :
                    /\ b \in DOMAIN command_history'
                    /\ command_history'[b] = command_history[b]
              /\ DOMAIN command_history' \subseteq DOMAIN command_history \cup {a}
              /\ last'.ret.ok => after = Append(StillFresh(window, now), now)
              /\ ~last'.ret.ok => after \in {window, StillFresh(window, now)}
              /\ (WellFormed(last') /\ ~last'.ret.ok)
                    => Len(StillFresh(window, now)) >= 10]_vars

\* A command for one actuator has been accepted while the window of
\* another actuator holds 10 commands of the last minute.
C21_Witness ==
    /\ last.op = "validate_command"
    /\ last.ret.ok
    /\ \E b \in DOMAIN command_history \ {last.actuator} :
          Len(StillFresh(command_history[b], now)) >= 10
    /\ command_history[last.actuator] = <<now>>

----------------------------------------------------------------------------
(* Properties of the running service, checked under SpecRunning            *)

\* C22: in the running service check_duration_expired() is invoked
\* periodically, so an actuator that is ON with a duration d > 0 and has
\* been ON for more than d seconds does not stay so: unless a command
\* switches it first, the periodic check switches it OFF.
C22_ExpiredActuatorSwitchedOff ==
    \A a \in Actuators :
        Expired(actuator_timers[a], now) ~> ~Expired(actuator_timers[a], now)

----------------------------------------------------------------------------
(* Properties of the concurrent expiry check, checked under SpecExpiry     *)

\* C23: when check_duration_expired() runs in one thread while activate_X
\* runs in another, the expiry check never turns OFF an activation that has
\* not exceeded its own duration: the timer its deactivate call finds ON is
\* an expired one.
C23_ExpiryTurnsOffOnlyExpired ==
    (last.op = "check_duration_expired" /\ last.actuator \in Actuators
     /\ Truthy(last.before[last.actuator].start_time))
        => Expired(last.before[last.actuator], now)

----------------------------------------------------------------------------
(* Properties of the command handlers under a burst, checked under         *)
(* SpecBurst                                                               *)

\* The handler of a command topic has handled a well-formed OFF command.
HandledOff(op) ==
    /\ op.op \in {"handle_pump_command", "handle_fan_command",
                  "handle_light_command"}
    /\ op.action = "OFF"
    /\ op.duration >= 0

\* C24 as stated: a well-formed OFF command received on an actuator's topic
\* always leaves that actuator OFF in ControlLogic, even when 10 or more
\* commands for it were accepted during the preceding 60 seconds.
C24_OffCommandAlwaysApplied ==
    HandledOff(last) => actuator_timers[last.actuator] = OffTimer

\* C24, amended: a well-formed OFF command received on an actuator's topic
\* leaves that actuator OFF in ControlLogic when fewer than 10 commands for
\* it were accepted during the preceding 60 seconds; otherwise the rate
\* limit drops it and every timer stays as it was.
C24_OffCommandAppliedUnlessRateLimited ==
    [][HandledOff(last')
       => IF AcceptedInLastMinute(command_history, last'.actuator, now) < 10
          THEN actuator_timers'[last'.actuator] = OffTimer
          ELSE actuator_timers' = actuator_timers]_vars

\* An OFF command has been accepted as the tenth command of its window and
\* has switched its actuator OFF.
C24_Witness ==
    /\ HandledOff(last)
    /\ AcceptedInLastMinute(command_history, last.actuator, now) = 10
    /\ \E i \in 1..Len(last.calls) :
          last.calls[i].fn = "validate_command" /\ last.calls[i].ret = TRUE
    /\ actuator_timers[last.actuator] = OffTimer

----------------------------------------------------------------------------
(* Further properties of the handlers, checked under Spec                  *)

\* C25: after any sequence of handled messages the telemetry record of each
\* actuator mirrors its ControlLogic timer: the status is ON exactly when
\* the timer has a start_time, and the durations are equal.
C25_StatusMirrorsTimer ==
    \A a \in Actuators :
        /\ actuator_status[a].status = "ON"
              <=> actuator_timers[a].start_time # None
        /\ actuator_status[a].duration = actuator_timers[a].duration

----------------------------------------------------------------------------
(* Properties of the shutdown, checked under SpecShutdown                  *)

\* C26: when the service shuts down on KeyboardInterrupt, all three
\* actuators are OFF once main() has returned, under every interleaving of
\* the main thread's deactivate_all() / loop_stop() with the callback
\* thread.
C26_AllOffAfterShutdown ==
    main_pc = "returned" => \A a \in Actuators : actuator_timers[a] = OffTimer

\* C27: each reading published to plant-iot/sensors/aggregated causes only
\* a bounded number of publications by the sensor-data service: once the
\* devices have stopped publishing, the service eventually has nothing left
\* to handle and stops publishing.
C27_ServiceEventuallyQuiet ==
    <>[](inbox["sensor-data-service"] = <<>>)

\* validate_command accepted the command of the last handler run.
AcceptedByValidator(op) ==
    \E i \in 1..Len(op.calls) :
        op.calls[i].fn = "validate_command" /\ op.calls[i].ret = TRUE

\* C28: a grow-light ON command that passes validate_command is applied
\* whenever the latest known temperature is not above 40 degrees C,
\* including when no reading has been received yet and when the latest
\* reading carried no temperature: an absent temperature counts as 0 and
\* never causes the command to be dropped.
C28_LightOnAppliedUnlessHot ==
    (/\ last.op = "handle_light_command"
     /\ last.action = "ON"
     /\ AcceptedByValidator(last)
     /\ ~TemperatureAbove40(current_sensor_data))
        => actuator_timers["grow_light"] =
              [start_time |-> Some(now), duration |-> last.duration]

----------------------------------------------------------------------------
(* Recovery from the rate limit, checked under SpecBurst                   *)

\* The handler of a command topic has run.
CommandHandled(op) ==
    op.op \in {"handle_pump_command", "handle_fan_command",
               "handle_light_command"}

\* C29: a rate-limited actuator is never locked out for good: a command the
\* rate limit rejects is not recorded, entries older than 60 seconds are
\* discarded at the next check, and once 60 seconds have passed since the
\* oldest command in the window the next well-formed command for that
\* actuator is accepted, however many attempts were rejected in between.
C29_RateLimitLetsGoAfterAMinute ==
    [][CommandHandled(last')
       => LET window == WindowOf(command_history, last'.actuator)
              after == WindowOf(command_history', last'.actuator)
          IN  /\ ~AcceptedByValidator(last') => after = StillFresh(window, now)
              /\ \A i \in 1..Len(after) : now - after[i] < 60
              /\ (window = <<>> \/ now - window[1] >= 60)
                    => AcceptedByValidator(last')]_vars

\* The last command of a client that sent as many as it can was accepted
\* with an otherwise empty window: all earlier ones were sent a minute
\* before, ten of them accepted and the rest rejected.
C29_Witness ==
    /\ CommandHandled(last)
    /\ AcceptedByValidator(last)
    /\ handled = MaxBurst
    /\ handled > 11
    /\ now > 60
    /\ command_history[last.actuator] = <<now>>

----------------------------------------------------------------------------
(* Further properties of the engines, checked under SpecStore              *)

\* C30: whenever an engine's is_trained flag is true its model set is
\* complete: ActuatorController holds a model for each of fan, pump and
\* light, and TrendPredictor holds a model for each of the four metrics
\* together with a fitted feature transform, after any sequence of
\* construction, train, save_models and load_models.
C30_TrainedMeansComplete ==
    /\ tp_is_trained
          => /\ DOMAIN tp_models = Elems(Metrics)
             /\ tp_poly_features # None
    /\ ac_is_trained => DOMAIN ac_models = Elems(TARGET_ACTUATORS)

====
